---- MODULE Spec2Model ----
(***************************************************************************)
(* Model of the progress/scoring engine of the LMS backend:                *)
(*   - the Quiz model's calculateScore (quiz grading),                     *)
(*   - the Progress model's mutators (completeLesson, updateLessonProgress,*)
(*     addQuizAttempt) and updateOverallProgress,                          *)
(*   - the route handlers that load a progress record, call a mutator and  *)
(*     answer (lessons, quizzes, progress/certificate, courses/enroll),    *)
(*     each cut at its awaits into the steps other requests can come       *)
(*     between,                                                            *)
(*   - the routes of the admin that create, update, reorder and delete the *)
(*     lessons and quizzes of a course, and update and delete the course.  *)
(* Dates are values of a logical clock; 0 stands for an unset date.        *)
(***************************************************************************)
EXTENDS Integers, Sequences, FiniteSets, TLC

(***************************************************************************)
(* Bounds of the model.                                                    *)
(***************************************************************************)
MaxQuestions == 2       \* questions per quiz in the grading specification
MaxClock == 2           \* the logical clock runs 1..MaxClock
MaxAttemptsStored == 2  \* a submission is sent while the record holds fewer attempts
MaxTimeSpent == 1       \* a body's timeSpent keeps an entry's total within -1..MaxTimeSpent
MaxBestAttempts == 3    \* quiz attempts of a record whose best scores are reported

(***************************************************************************)
(* Program constants.                                                      *)
(***************************************************************************)
AutoCompleteThreshold == 80   \* updateLessonProgress: completed: watchedPercentage >= 80
DefaultPassingScore == 70     \* quizSchema.passingScore default
DefaultWatched == 100         \* completeLesson(lessonId, timeSpent = 0, watchedPercentage = 100)
FullProgress == 100           \* overallProgress === 100

OptionIds == {"a", "b"}
LessonIds == {"l1", "l2"}
QuizIds == {"q1"}
Unset == 0

VARIABLES
    lessonDocs,   \* Lesson collection: the lesson documents of the course (id, order)
    quizDocs,     \* Quiz collection: set of quiz documents
    course,       \* the course document: exists, lessons, quizzes, enrolled
    progress,     \* Progress collection for the (user, course) pair: a sequence of records
    now,          \* the clock read by new Date()
    resp,         \* the outcome of the latest step: a route's response or a method's return
    reqs,         \* the request slots: where each handler stands and what it holds
    gQuiz,        \* grading specification: the quiz
    gAnswers,     \* grading specification: the submitted answers
    gScore        \* grading specification: the result of calculateScore

vars == <<lessonDocs, quizDocs, course, progress, now, resp, reqs, gQuiz, gAnswers, gScore>>

Range(s) == {s[i] : i \in 1..Len(s)}

Max(a, b) == IF a >= b THEN a ELSE b

(***************************************************************************)
(* Documents of the Lesson and Course collections.                         *)
(***************************************************************************)
\* a lesson document: of lessonSchema the model keeps _id and order
LessonDoc(id, order) == [id |-> id, order |-> order]

\* the order of the lessons the initial states hold
OrderOf(id) == IF id = "l1" THEN 1 ELSE 2

Lessons(ids) == {LessonDoc(id, OrderOf(id)) : id \in ids}

LessonIdsOf(docs) == {d.id : d \in docs}

\* the course document: of courseSchema the model keeps lessons, quizzes, whether the
\* learner is among the enrollments, and isPublished
Course(lessons, quizzes, enrolled, isPublished) ==
    [exists |-> TRUE, lessons |-> lessons, quizzes |-> quizzes, enrolled |-> enrolled,
     isPublished |-> isPublished]

\* Course.findById returns null: the course document was deleted
NoCourse ==
    [exists |-> FALSE, lessons |-> {}, quizzes |-> {}, enrolled |-> FALSE,
     isPublished |-> FALSE]

(***************************************************************************)
(* Quiz grading: quizSchema.methods.calculateScore.                        *)
(***************************************************************************)

\* question.options.filter(option => option.isCorrect).map(option => option._id.toString())
CorrectOptionIds(question) ==
    LET correct == SelectSeq(question.options, LAMBDA o : o.isCorrect)
    IN [k \in 1..Len(correct) |-> correct[k].id]

\* selectedOptionIds.length === correctOptionIds.length &&
\*   selectedOptionIds.every(id => correctOptionIds.includes(id.toString()))
IsCorrect(selectedOptionIds, correctOptionIds) ==
    /\ Len(selectedOptionIds) = Len(correctOptionIds)
    /\ \A k \in 1..Len(selectedOptionIds) : selectedOptionIds[k] \in Range(correctOptionIds)

\* if (answers[index]): an array, even an empty one, is truthy; a missing element is not
Answered(answers, index) == index <= Len(answers)

\* the forEach body for the question at position index
QuestionCorrect(question, answers, index) ==
    /\ Answered(answers, index)
    /\ IsCorrect(answers[index], CorrectOptionIds(question))

RECURSIVE Tally(_, _, _)
\* the three accumulators after the first n questions
Tally(questions, answers, n) ==
    IF n = 0
    THEN [correctAnswers |-> 0, totalPoints |-> 0, earnedPoints |-> 0]
    ELSE LET prev == Tally(questions, answers, n - 1)
             hit == QuestionCorrect(questions[n], answers, n)
         IN [correctAnswers |-> prev.correctAnswers + (IF hit THEN 1 ELSE 0),
             totalPoints |-> prev.totalPoints + questions[n].points,
             earnedPoints |-> prev.earnedPoints + (IF hit THEN questions[n].points ELSE 0)]

(***************************************************************************)
(* Math.round((part / whole) * 100) in IEEE 754 double precision.  A       *)
(* double is a significand of 53 bits and the exponent of its first bit;   *)
(* the significand is kept as its first bit followed by four limbs of 13   *)
(* bits, so that all intermediate integers stay small.  The division and   *)
(* the multiplication each round to the nearest double, ties to even.      *)
(***************************************************************************)
LimbBits == 13
Limbs == 4
Hundred == 100

RECURSIVE Pow2(_)
Pow2(k) == IF k = 0 THEN 1 ELSE 2 * Pow2(k - 1)

Base == Pow2(LimbBits)

RECURSIVE Normalize(_, _, _)
\* scale p / w by a power of two into [1, 2): p / w = (num / den) * 2^exp
Normalize(p, w, e) ==
    IF p < w THEN Normalize(2 * p, w, e - 1)
    ELSE IF p >= 2 * w THEN Normalize(p, 2 * w, e + 1)
    ELSE [num |-> p, den |-> w, exp |-> e]

RECURSIVE LongDivision(_, _, _)
\* the next n limbs of r / w, r < w, and the remainder left
LongDivision(r, w, n) ==
    IF n = 0 THEN [limbs |-> << >>, rem |-> r]
    ELSE LET rest == LongDivision((r * Base) % w, w, n - 1)
         IN [limbs |-> <<(r * Base) \div w>> \o rest.limbs, rem |-> rest.rem]

RECURSIVE Increment(_, _)
\* limbs[1..i] plus one: the limbs and the carry out
Increment(limbs, i) ==
    IF i = 0 THEN [limbs |-> << >>, carry |-> 1]
    ELSE IF limbs[i] < Base - 1
    THEN [limbs |-> SubSeq(limbs, 1, i - 1) \o <<limbs[i] + 1>>, carry |-> 0]
    ELSE LET rest == Increment(limbs, i - 1)
         IN [limbs |-> rest.limbs \o <<0>>, carry |-> rest.carry]

\* the double 1.limbs * 2^exp, rounded up by one unit in the last place or kept
Rounded(limbs, exp, up) ==
    IF ~up THEN [limbs |-> limbs, exp |-> exp]
    ELSE LET inc == Increment(limbs, Len(limbs))
         IN [limbs |-> inc.limbs, exp |-> exp + inc.carry]

\* part / whole as a double, part > 0
Quotient(part, whole) ==
    LET n == Normalize(part, whole, 0)
        d == LongDivision(n.num - n.den, n.den, Limbs)
        up == \/ 2 * d.rem > n.den
              \/ 2 * d.rem = n.den /\ d.limbs[Limbs] % 2 = 1
    IN Rounded(d.limbs, n.exp, up)

RECURSIVE TimesFrom(_, _, _, _)
\* limbs[1..i] * k + carry: the low limbs and the carry into the first bit
TimesFrom(limbs, k, i, carry) ==
    IF i = 0 THEN [limbs |-> << >>, carry |-> carry]
    ELSE LET acc == limbs[i] * k + carry
             rest == TimesFrom(limbs, k, i - 1, acc \div Base)
         IN [limbs |-> rest.limbs \o <<acc % Base>>, carry |-> rest.carry]

RECURSIVE BitLength(_)
BitLength(n) == IF n = 0 THEN 0 ELSE 1 + BitLength(n \div 2)

RECURSIVE ShiftRight(_, _, _, _)
\* the limbs after a shift to the right by d bits, high the limb above them
ShiftRight(high, limbs, i, d) ==
    IF i > Len(limbs) THEN << >>
    ELSE <<((high % Pow2(d)) * Base + limbs[i]) \div Pow2(d)>>
         \o ShiftRight(limbs[i], limbs, i + 1, d)

\* the double x times the small natural k, as a double
Product(x, k) ==
    LET exact == TimesFrom(x.limbs, k, Limbs, 0)
        top == k + exact.carry
        d == BitLength(top) - 1
        kept == ShiftRight(top, exact.limbs, 1, d)
        out == exact.limbs[Limbs] % Pow2(d)
        guard == d > 0 /\ (out \div Pow2(d - 1)) % 2 = 1
        sticky == d > 0 /\ out % Pow2(d - 1) # 0
        up == guard /\ (sticky \/ kept[Limbs] % 2 = 1)
    IN Rounded(kept, x.exp + d, up)

\* Math.round(x) = floor(x + 0.5) for a positive double x below 2^LimbBits
MathRound(x) ==
    IF x.exp < -1 THEN 0
    ELSE IF x.exp = -1 THEN 1
    ELSE Pow2(x.exp) + (x.limbs[1] \div Pow2(LimbBits - x.exp))
         + ((x.limbs[1] \div Pow2(LimbBits - x.exp - 1)) % 2)

\* Math.round((part / whole) * 100) for whole > 0
RoundPercent(part, whole) ==
    IF part = 0 THEN 0 ELSE MathRound(Product(Quotient(part, whole), Hundred))

\* the percentages of the item counts a course of the model can have, computed once
MaxItems == 2 * (Cardinality(LessonIds) + Cardinality(QuizIds))
ItemPercent == [part \in 0..MaxItems, whole \in 1..MaxItems |-> RoundPercent(part, whole)]

Percentage(earnedPoints, totalPoints) ==
    IF totalPoints > 0 THEN RoundPercent(earnedPoints, totalPoints) ELSE 0

calculateScoreStrictPass(quiz, answers) ==
    LET t == Tally(quiz.questions, answers, Len(quiz.questions))
        percentage == Percentage(t.earnedPoints, t.totalPoints)
    IN [correctAnswers |-> t.correctAnswers,
        totalQuestions |-> Len(quiz.questions),
        earnedPoints |-> t.earnedPoints,
        totalPoints |-> t.totalPoints,
        percentage |-> percentage,
        passed |-> percentage > quiz.passingScore]

calculateScore(quiz, answers) ==
    LET t == Tally(quiz.questions, answers, Len(quiz.questions))
        percentage == Percentage(t.earnedPoints, t.totalPoints)
    IN [correctAnswers |-> t.correctAnswers,
        totalQuestions |-> Len(quiz.questions),
        earnedPoints |-> t.earnedPoints,
        totalPoints |-> t.totalPoints,
        percentage |-> percentage,
        passed |-> percentage >= quiz.passingScore]

(***************************************************************************)
(* The Progress model: documents, virtuals and methods.                    *)
(***************************************************************************)

\* Progress.create({user, course}): the schema defaults
NewProgress ==
    [lessonsProgress |-> << >>,
     quizAttempts |-> << >>,
     overallProgress |-> 0,
     completedAt |-> Unset,
     certificateIssued |-> FALSE,
     certificateIssuedAt |-> Unset]

\* An update of a stored array can leave elements that no method pushed: a positional
\* $set past the end of the array creates an element that holds the fields set and
\* nothing else, after null elements where it leaves a gap.  Read back, the first is
\* an entry without a lesson, its other fields at their defaults.
PartialEntry ==
    [lesson |-> "none", completed |-> FALSE, completedAt |-> Unset, timeSpent |-> 0,
     watchedPercentage |-> 0]

NullEntry == [PartialEntry EXCEPT !.lesson = "null"]

\* lp.lesson.toString() throws a TypeError: lp is null or lp.lesson is undefined
NoLessonOf(entry) == entry.lesson \in {"none", "null"}

\* this.lessonsProgress.find(...) throws: it comes to an element without a lesson
\* before it comes to an entry of the lesson
FindThrows(doc, lessonId) ==
    \E i \in 1..Len(doc.lessonsProgress) :
        /\ NoLessonOf(doc.lessonsProgress[i])
        /\ \A j \in 1..i - 1 : doc.lessonsProgress[j].lesson # lessonId

\* this.lessonsProgress.filter(lesson => lesson.completed) throws: an element is null
CountThrows(doc) ==
    \E i \in 1..Len(doc.lessonsProgress) : doc.lessonsProgress[i].lesson = "null"

\* this.lessonsProgress.find(lp => lp.lesson.toString() === lessonId.toString()):
\* the position of the first entry of the lesson, 0 when there is none
FindLessonProgress(doc, lessonId) ==
    LET hits == {i \in 1..Len(doc.lessonsProgress) : doc.lessonsProgress[i].lesson = lessonId}
    IN IF hits = {} THEN 0 ELSE CHOOSE i \in hits : \A j \in hits : i <= j

\* virtual completedLessonsCount
completedLessonsCount(doc) ==
    Cardinality({i \in 1..Len(doc.lessonsProgress) : doc.lessonsProgress[i].completed})

passedAttemptsCount(doc) ==
    Cardinality({i \in 1..Len(doc.quizAttempts) : doc.quizAttempts[i].score.passed})

\* virtual passedQuizzesCount: the size of the set of quiz ids with a passed attempt
passedQuizzesCount(doc) ==
    Cardinality({doc.quizAttempts[i].quiz :
                    i \in {j \in 1..Len(doc.quizAttempts) : doc.quizAttempts[j].score.passed}})

\* progressSchema.methods.completeLesson, up to the call of updateOverallProgress
completeLesson(doc, lessonId, timeSpent, watchedPercentage, date) ==
    LET i == FindLessonProgress(doc, lessonId)
    IN IF i > 0
       THEN [doc EXCEPT !.lessonsProgress[i] =
                [@ EXCEPT !.completed = TRUE,
                          !.completedAt = date,
                          !.timeSpent = @ + timeSpent,
                          !.watchedPercentage = Max(@, watchedPercentage)]]
       ELSE [doc EXCEPT !.lessonsProgress =
                Append(@, [lesson |-> lessonId, completed |-> TRUE, completedAt |-> date,
                           timeSpent |-> timeSpent,
                           watchedPercentage |-> watchedPercentage])]

updateLessonProgressReevaluated(doc, lessonId, timeSpent, watchedPercentage) ==
    LET i == FindLessonProgress(doc, lessonId)
    IN IF i > 0
       THEN [doc EXCEPT !.lessonsProgress[i] =
                [@ EXCEPT !.timeSpent = @ + timeSpent,
                          !.watchedPercentage = Max(@, watchedPercentage),
                          !.completed = watchedPercentage >= AutoCompleteThreshold]]
       ELSE [doc EXCEPT !.lessonsProgress =
                Append(@, [lesson |-> lessonId,
                           completed |-> watchedPercentage >= AutoCompleteThreshold,
                           completedAt |-> Unset,
                           timeSpent |-> timeSpent,
                           watchedPercentage |-> watchedPercentage])]

\* progressSchema.methods.updateLessonProgress, up to the call of updateOverallProgress
updateLessonProgress(doc, lessonId, timeSpent, watchedPercentage) ==
    LET i == FindLessonProgress(doc, lessonId)
    IN IF i > 0
       THEN [doc EXCEPT !.lessonsProgress[i] =
                [@ EXCEPT !.timeSpent = @ + timeSpent,
                          !.watchedPercentage = Max(@, watchedPercentage)]]
       ELSE [doc EXCEPT !.lessonsProgress =
                Append(@, [lesson |-> lessonId,
                           completed |-> watchedPercentage >= AutoCompleteThreshold,
                           completedAt |-> Unset,
                           timeSpent |-> timeSpent,
                           watchedPercentage |-> watchedPercentage])]

\* progressSchema.methods.addQuizAttempt, up to the call of updateOverallProgress
\* (the attempt's answers and timeSpent are written here and read by no operation
\* of the model: they are left out of the state)
addQuizAttempt(doc, quizId, score, date) ==
    [doc EXCEPT !.quizAttempts =
        Append(@, [quiz |-> quizId, score |-> score, completedAt |-> date])]

updateOverallProgressAlwaysStamp(doc, totalLessons, totalQuizzes, date) ==
    LET completedItems == (IF totalLessons > 0 THEN completedLessonsCount(doc) ELSE 0)
                          + (IF totalQuizzes > 0 THEN passedQuizzesCount(doc) ELSE 0)
        totalItems == totalLessons + totalQuizzes
        overall == IF totalItems > 0 THEN ItemPercent[completedItems, totalItems] ELSE 0
    IN [doc EXCEPT !.overallProgress = overall,
                   !.completedAt = IF overall = FullProgress THEN date ELSE @]

updateOverallProgressLessonsOnly(doc, totalLessons, totalQuizzes, date) ==
    LET overall == IF totalLessons > 0
                   THEN ItemPercent[completedLessonsCount(doc), totalLessons] ELSE 0
    IN [doc EXCEPT !.overallProgress = overall,
                   !.completedAt = IF overall = FullProgress /\ @ = Unset THEN date ELSE @]

\* progressSchema.methods.updateOverallProgress, after its populate has resolved:
\* totalLessons = this.course.lessons.length, totalQuizzes = this.course.quizzes.length
updateOverallProgress(doc, totalLessons, totalQuizzes, date) ==
    IF totalLessons = 0 /\ totalQuizzes = 0
    THEN [doc EXCEPT !.overallProgress = 0]
    ELSE LET completedItems == (IF totalLessons > 0 THEN completedLessonsCount(doc) ELSE 0)
                               + (IF totalQuizzes > 0 THEN passedQuizzesCount(doc) ELSE 0)
             totalItems == (IF totalLessons > 0 THEN totalLessons ELSE 0)
                           + (IF totalQuizzes > 0 THEN totalQuizzes ELSE 0)
             overall == IF totalItems > 0 THEN ItemPercent[completedItems, totalItems] ELSE 0
         IN [doc EXCEPT !.overallProgress = overall,
                        !.completedAt = IF overall = FullProgress /\ @ = Unset
                                        THEN date ELSE @]


(***************************************************************************)
(* document.save(): the in-memory document is validated, the changes made  *)
(* to it since it was loaded are sent as one update, and the update is     *)
(* applied to the stored record as it is then.                             *)
(***************************************************************************)
\* schema validation run by save(), on every element of the document: overallProgress
\* and watchedPercentage in 0..100, lesson required in an entry (null elements are
\* passed over)
Valid(doc) ==
    /\ doc.overallProgress >= 0 /\ doc.overallProgress <= 100
    /\ \A i \in 1..Len(doc.lessonsProgress) :
          \/ doc.lessonsProgress[i].lesson = "null"
          \/ /\ doc.lessonsProgress[i].lesson # "none"
             /\ doc.lessonsProgress[i].watchedPercentage >= 0
             /\ doc.lessonsProgress[i].watchedPercentage <= 100

\* one lesson entry after the positional $set of the fields the request modified
SetEntry(cur, base, mem) ==
    [lesson |-> cur.lesson,
     completed |-> IF mem.completed # base.completed THEN mem.completed ELSE cur.completed,
     completedAt |-> IF mem.completedAt # base.completedAt
                     THEN mem.completedAt ELSE cur.completedAt,
     timeSpent |-> IF mem.timeSpent # base.timeSpent THEN mem.timeSpent ELSE cur.timeSpent,
     watchedPercentage |-> IF mem.watchedPercentage # base.watchedPercentage
                           THEN mem.watchedPercentage ELSE cur.watchedPercentage]

\* elements pushed to an array since it was loaded are appended to the stored array
Pushed(baseSeq, memSeq) == SubSeq(memSeq, Len(baseSeq) + 1, Len(memSeq))

\* the request pushed array elements: its update increments the version key
Pushes(base, mem) ==
    \/ Len(mem.lessonsProgress) > Len(base.lessonsProgress)
    \/ Len(mem.quizAttempts) > Len(base.quizAttempts)

\* the positions of the loaded lesson entries the request modified: its update sets
\* their modified fields by position, 'lessonsProgress.<index>.<field>'
Modified(base, mem) ==
    {i \in 1..Len(base.lessonsProgress) : mem.lessonsProgress[i] # base.lessonsProgress[i]}

\* the request modified an existing array element: its update is conditioned on the
\* version key it loaded
Positional(base, mem) == Modified(base, mem) # {}

\* the store rejects the update: a field cannot be created in a null element
UpdateFails(cur, base, mem) ==
    \E i \in Modified(base, mem) :
        i <= Len(cur.lessonsProgress) /\ cur.lessonsProgress[i].lesson = "null"

\* the stored lesson entries after the positional $set: a position holds whatever
\* element the stored array has there now; a position past its end is created with
\* the fields set, after null elements for the positions in between
Positioned(cur, base, mem) ==
    LET last == Max(Len(cur.lessonsProgress),
                    IF Modified(base, mem) = {} THEN 0
                    ELSE CHOOSE i \in Modified(base, mem) :
                            \A j \in Modified(base, mem) : j <= i)
    IN [i \in 1..last |->
           IF i \in Modified(base, mem)
           THEN SetEntry(IF i <= Len(cur.lessonsProgress)
                         THEN cur.lessonsProgress[i] ELSE PartialEntry,
                         base.lessonsProgress[i], mem.lessonsProgress[i])
           ELSE IF i <= Len(cur.lessonsProgress) THEN cur.lessonsProgress[i]
           ELSE NullEntry]

\* document.save(): the stored document cur after the update that carries the changes
\* made to the loaded document base, which is now mem
Save(cur, base, mem) ==
    [lessonsProgress |->
        Positioned(cur, base, mem) \o Pushed(base.lessonsProgress, mem.lessonsProgress),
     quizAttempts |-> cur.quizAttempts \o Pushed(base.quizAttempts, mem.quizAttempts),
     overallProgress |-> IF mem.overallProgress # base.overallProgress
                         THEN mem.overallProgress ELSE cur.overallProgress,
     completedAt |-> IF mem.completedAt # base.completedAt
                     THEN mem.completedAt ELSE cur.completedAt,
     certificateIssued |-> IF mem.certificateIssued # base.certificateIssued
                           THEN mem.certificateIssued ELSE cur.certificateIssued,
     certificateIssuedAt |-> IF mem.certificateIssuedAt # base.certificateIssuedAt
                             THEN mem.certificateIssuedAt ELSE cur.certificateIssuedAt]


(***************************************************************************)
(* Responses and request slots.  A handler is an async function: it runs   *)
(* from one await to the next as one step, and between two of its steps    *)
(* the clock may advance and the steps of other requests may run.  A slot  *)
(* holds what a handler keeps in its local variables between its steps.    *)
(***************************************************************************)
Reply(route, status, message, overallProgress) ==
    [route |-> route, status |-> status, message |-> message,
     overallProgress |-> overallProgress]

Refuse(route, status, message) == Reply(route, status, message, 0)

NoReply == Refuse("none", 0, "")

\* req.body of the lesson routes (timeSpent, watchedPercentage) and of the submission
Body(timeSpent, watchedPercentage, answers) ==
    [timeSpent |-> timeSpent, watchedPercentage |-> watchedPercentage, answers |-> answers]

NoBody == Body(0, 0, << >>)

NoQuiz == [id |-> "none", questions |-> << >>, passingScore |-> 0, maxAttempts |-> 0,
           isActive |-> FALSE]

\* no lesson data
NoLesson == [order |-> 0, video |-> "none"]

\* a request slot:
\*   pc        where the handler stands
\*   route, target, body   the request
\*   quiz      the quiz document Quiz.findById returned, or quizData of a creation
\*   lesson    lessonData of a creation
\*   pending   the updates of a reordering that the store has not answered
\*   doc       the progress document as Progress.findOne or Progress.create returned it
\*   mem       that document in memory, with the changes made to it since
\*   sent      the in-memory document when save() took its changes
\*   recompute where the unawaited updateOverallProgress() stands
\*   lessons, quizzes   course.lessons.length and course.quizzes.length as populated
\*   list      the ids of the quizzes Quiz.find returned
\*   nulls     the paths a populate has set to null: "course", "lesson", "quiz"
\*   behind    a save has incremented the stored version key since doc was read
\*   lost      the stored record was deleted since doc was read
\*   status    the status answered
IdleReq == [pc |-> "idle", route |-> "none", target |-> "none", body |-> NoBody,
            quiz |-> NoQuiz, lesson |-> NoLesson, pending |-> {},
            doc |-> NewProgress, mem |-> NewProgress, sent |-> NewProgress,
            recompute |-> "none", lessons |-> 0, quizzes |-> 0, list |-> {},
            nulls |-> {}, behind |-> FALSE, lost |-> FALSE, status |-> 0]

Reqs == {"r1", "r2"}

\* the slot carries no request, or one that was answered
Free(r) == reqs[r].pc \in {"idle", "done"}

\* a new request in a slot, standing at pc
Started(route, target, body, quiz, pc) ==
    [IdleReq EXCEPT !.pc = pc, !.route = route, !.target = target, !.body = body,
                    !.quiz = quiz]

\* the slot of an answered request: the handler has returned, what it held is gone
Returned(route, target, status) ==
    [IdleReq EXCEPT !.pc = "done", !.route = route, !.target = target, !.status = status]

\* a new request is answered in its first step
AnswerAtOnce(r, route, target, status, message) ==
    /\ reqs' = [reqs EXCEPT ![r] = Returned(route, target, status)]
    /\ resp' = Refuse(route, status, message)

\* the request of slot r is answered
Answer(r, status, message, overallProgress) ==
    /\ reqs' = [reqs EXCEPT ![r] = Returned(reqs[r].route, reqs[r].target, status)]
    /\ resp' = Reply(reqs[r].route, status, message, overallProgress)

(***************************************************************************)
(* Inputs of the requests.                                                 *)
(***************************************************************************)
\* timeSpent of a body: POST /:id/complete takes it unvalidated
CompleteTimes == {-1, 0, 1}
\* a watch progress above the auto-complete threshold
WatchedAbove == AutoCompleteThreshold + 5
WatchedInputs == {60, 79, WatchedAbove}
MaxAttemptsInputs == {0, 1}

Option(id, isCorrect) == [id |-> id, isCorrect |-> isCorrect]

\* the quiz of the API test: two questions of one point, passing score 70
TestQuestions ==
    << [options |-> <<Option("a", TRUE), Option("b", FALSE)>>, points |-> 1],
       [options |-> <<Option("a", FALSE), Option("b", TRUE)>>, points |-> 1] >>

\* Quiz.create: isActive defaults to true
NewQuiz(quizId, maxAttempts) ==
    [id |-> quizId, questions |-> TestQuestions, passingScore |-> DefaultPassingScore,
     maxAttempts |-> maxAttempts, isActive |-> TRUE]

\* answers of a submission: both right, the first right only, one answer too few
SubmitAnswers == { << <<"a">>, <<"b">> >>, << <<"a">>, <<"a">> >>, << <<"a">> >> }

\* the answer lists of the right length
GradedAnswers == {a \in SubmitAnswers : Len(a) = Len(TestQuestions)}

QuizIdsOf(docs) == {d.id : d \in docs}

QuizById(docs, quizId) == CHOOSE d \in docs : d.id = quizId

TotalLessons == Cardinality(course.lessons)
TotalQuizzes == Cardinality(course.quizzes)

(***************************************************************************)
(* The routes of the learner that change a progress record:                *)
(*   POST /api/lessons/:id/complete, PUT /api/lessons/:id/progress,        *)
(*   POST /api/quizzes/:id/submit.                                         *)
(***************************************************************************)
LessonRoutes == {"complete", "progress"}
MutatorRoutes == {"complete", "progress", "submit"}

\* validate(schemas.updateLessonProgress) of PUT /:id/progress: timeSpent min(0),
\* watchedPercentage min(0) max(100); POST /:id/complete has no validation
BodyValid(route, timeSpent, watchedPercentage) ==
    route = "progress" =>
        /\ timeSpent >= 0
        /\ watchedPercentage >= 0 /\ watchedPercentage <= 100

\* a lesson route up to const lesson = await Lesson.findById(req.params.id) and the
\* check of its result
FindLesson(r, route, lessonId, timeSpent, watchedPercentage) ==
    /\ Free(r)
    /\ route \in LessonRoutes
    /\ IF ~BodyValid(route, timeSpent, watchedPercentage)
       THEN AnswerAtOnce(r, route, lessonId, 400, "validation error")
       ELSE IF lessonId \notin LessonIdsOf(lessonDocs)
       THEN AnswerAtOnce(r, route, lessonId, 404, "lesson not found")
       ELSE /\ reqs' = [reqs EXCEPT ![r] =
                          Started(route, lessonId,
                                  Body(timeSpent, watchedPercentage, << >>),
                                  NoQuiz, "target")]
            /\ UNCHANGED resp
    /\ UNCHANGED <<lessonDocs, quizDocs, course, progress, now, gQuiz, gAnswers, gScore>>

QuizRoutes == {"submit", "getQuiz", "getResults"}

\* a quiz route up to const quiz = await Quiz.findById(req.params.id) and the checks of
\* its result; GET /:id/results has no isActive check; GET /:id populates the course
\* of the quiz and reads quiz.course._id, a TypeError when the course is gone
FindQuiz(r, route, quizId, answers) ==
    /\ Free(r)
    /\ route \in QuizRoutes
    /\ IF quizId \notin QuizIdsOf(quizDocs)
       THEN AnswerAtOnce(r, route, quizId, 404, "quiz not found")
       ELSE IF route # "getResults" /\ ~QuizById(quizDocs, quizId).isActive
       THEN AnswerAtOnce(r, route, quizId, 400, "quiz is not active")
       ELSE IF route = "getQuiz" /\ ~course.exists
       THEN AnswerAtOnce(r, route, quizId, 500, "server error")
       ELSE /\ reqs' = [reqs EXCEPT ![r] =
                          Started(route, quizId, Body(0, 0, answers),
                                  QuizById(quizDocs, quizId), "target")]
            /\ UNCHANGED resp
    /\ UNCHANGED <<lessonDocs, quizDocs, course, progress, now, gQuiz, gAnswers, gScore>>

\* const course = await Course.findById(...) and the check course.isUserEnrolled, a
\* TypeError when the course is gone
FindCourse(r) ==
    /\ reqs[r].pc = "target"
    /\ IF ~course.exists
       THEN Answer(r, 500, "server error", 0)
       ELSE IF ~course.enrolled
       THEN Answer(r, 403, "not enrolled", 0)
       ELSE /\ reqs' = [reqs EXCEPT ![r] = [@ EXCEPT !.pc = "course"]]
            /\ UNCHANGED resp
    /\ UNCHANGED <<lessonDocs, quizDocs, course, progress, now, gQuiz, gAnswers, gScore>>

\* the document a query returns: the stored record, read now
Loaded(slot, record) ==
    [slot EXCEPT !.pc = "loaded", !.doc = record, !.mem = record, !.behind = FALSE,
                 !.lost = FALSE]

\* let progress = await Progress.findOne({user, course}) of a mutating route
FindProgress(r) ==
    /\ reqs[r].pc = "course"
    /\ reqs[r].route \in MutatorRoutes
    /\ reqs' = [reqs EXCEPT ![r] = IF Len(progress) = 0
                                   THEN [@ EXCEPT !.pc = "creating"]
                                   ELSE Loaded(@, progress[1])]
    /\ UNCHANGED <<lessonDocs, quizDocs, course, progress, now, resp, gQuiz, gAnswers, gScore>>

DuplicateKeyNever(records) == FALSE

\* progressSchema.index({ user: 1, course: 1 }, { unique: true }): an insert for a
\* pair that has a record is rejected with a duplicate key error
DuplicateKey(records) == Len(records) > 0

\* await Progress.create({user, course}) of a mutating route and of the enrollment
Create(r) ==
    /\ reqs[r].pc = "creating"
    /\ IF DuplicateKey(progress)
       THEN /\ Answer(r, 500, "server error", 0)
            /\ UNCHANGED progress
       ELSE /\ progress' = Append(progress, NewProgress)
            /\ IF reqs[r].route = "enroll"
               THEN Answer(r, 200, "ok", 0)
               ELSE /\ reqs' = [reqs EXCEPT ![r] = Loaded(@, NewProgress)]
                    /\ UNCHANGED resp
    /\ UNCHANGED <<lessonDocs, quizDocs, course, now, gQuiz, gAnswers, gScore>>

\* the mutator was called: its changes are in memory, its updateOverallProgress() is
\* suspended at the populate, its save() has started
Mutated(slot, mem) == [slot EXCEPT !.pc = "mutated", !.mem = mem, !.recompute = "pending"]

\* progress.completeLesson(...) or progress.updateLessonProgress(...) up to return
\* this.save(): the change of the loaded document, dated now; when the method's find
\* throws, the route answers from its catch
CallLessonMutator(r) ==
    /\ reqs[r].pc = "loaded"
    /\ reqs[r].route \in LessonRoutes
    /\ LET slot == reqs[r]
           mem == IF slot.route = "complete"
                  THEN completeLesson(slot.doc, slot.target, slot.body.timeSpent,
                                      slot.body.watchedPercentage, now)
                  ELSE updateLessonProgress(slot.doc, slot.target, slot.body.timeSpent,
                                            slot.body.watchedPercentage)
       IN IF FindThrows(slot.doc, slot.target)
          THEN Answer(r, 500, "server error", 0)
          ELSE /\ reqs' = [reqs EXCEPT ![r] = Mutated(slot, mem)]
               /\ UNCHANGED resp
    /\ UNCHANGED <<lessonDocs, quizDocs, course, progress, now, gQuiz, gAnswers, gScore>>

\* existingAttempts of POST /:id/submit
ExistingAttempts(doc, quizId) ==
    Cardinality({i \in 1..Len(doc.quizAttempts) : doc.quizAttempts[i].quiz = quizId})

LimitReachedAbove(quiz, doc) ==
    quiz.maxAttempts > 0 /\ ExistingAttempts(doc, quiz.id) > quiz.maxAttempts

\* quiz.maxAttempts > 0 && existingAttempts.length >= quiz.maxAttempts
LimitReached(quiz, doc) ==
    quiz.maxAttempts > 0 /\ ExistingAttempts(doc, quiz.id) >= quiz.maxAttempts

InvalidAnswersNever(quiz, answers) == FALSE

\* !Array.isArray(answers) || answers.length !== quiz.questions.length
InvalidAnswers(quiz, answers) == Len(answers) # Len(quiz.questions)

\* POST /:id/submit from the attempt limit check, made on the loaded document, to the
\* call progress.addQuizAttempt(...) up to its return this.save()
CheckAndAddAttempt(r) ==
    /\ reqs[r].pc = "loaded"
    /\ reqs[r].route = "submit"
    /\ LET slot == reqs[r]
       IN IF LimitReached(slot.quiz, slot.doc)
          THEN Answer(r, 400, "maximum attempts reached", 0)
          ELSE IF InvalidAnswers(slot.quiz, slot.body.answers)
          THEN Answer(r, 400, "invalid answers format", 0)
          ELSE /\ reqs' = [reqs EXCEPT ![r] =
                             Mutated(slot,
                                 addQuizAttempt(slot.doc, slot.quiz.id,
                                     calculateScore(slot.quiz, slot.body.answers), now))]
               /\ UNCHANGED resp
    /\ UNCHANGED <<lessonDocs, quizDocs, course, progress, now, gQuiz, gAnswers, gScore>>

\* the handler is between the call of its mutator and its response
Saving(r) == reqs[r].pc \in {"mutated", "saving", "saved"}

\* the paths of the in-memory document that a populate sets to null: the document
\* they refer to is not in its collection
NullPaths(doc) ==
    {p \in {"course"} : ~course.exists}
    \cup {p \in {"lesson"} :
             \E i \in 1..Len(doc.lessonsProgress) :
                 doc.lessonsProgress[i].lesson \notin LessonIdsOf(lessonDocs)}
    \cup {p \in {"quiz"} :
             \E i \in 1..Len(doc.quizAttempts) :
                 /\ doc.quizAttempts[i].score.passed
                 /\ doc.quizAttempts[i].quiz \notin QuizIdsOf(quizDocs)}

\* the populate of updateOverallProgress is answered: this.course and the lesson and
\* quiz of every array element are replaced by the documents read, null for none
Populate(r) ==
    /\ Saving(r)
    /\ reqs[r].recompute = "pending"
    /\ reqs' = [reqs EXCEPT ![r] = [@ EXCEPT !.recompute = "populated",
                                             !.lessons = TotalLessons,
                                             !.quizzes = TotalQuizzes,
                                             !.nulls = NullPaths(reqs[r].mem)]]
    /\ UNCHANGED <<lessonDocs, quizDocs, course, progress, now, resp, gQuiz, gAnswers, gScore>>

\* updateOverallProgress throws a TypeError after its populate: this.course is null,
\* completedLessonsCount meets a null element, or passedQuizzesCount meets a passed
\* attempt whose quiz is null
RecomputeThrows(slot) ==
    \/ "course" \in slot.nulls
    \/ /\ slot.lessons + slot.quizzes > 0
       /\ \/ slot.lessons > 0 /\ CountThrows(slot.mem)
          \/ slot.quizzes > 0 /\ "quiz" \in slot.nulls

\* updateOverallProgress resumes after await this.populate(...) and runs to its end
\* on the in-memory document, dated now; its promise is awaited by nobody, so that
\* when it throws the document stays as it is
Recompute(r) ==
    /\ Saving(r)
    /\ reqs[r].recompute = "populated"
    /\ reqs' = [reqs EXCEPT ![r] =
                   IF RecomputeThrows(reqs[r])
                   THEN [@ EXCEPT !.recompute = "failed"]
                   ELSE [@ EXCEPT !.recompute = "done",
                                  !.mem = updateOverallProgress(@, reqs[r].lessons,
                                                                reqs[r].quizzes, now)]]
    /\ UNCHANGED <<lessonDocs, quizDocs, course, progress, now, resp, gQuiz, gAnswers, gScore>>

\* document.save() validates the in-memory document and takes its changes
SaveChanges(r) ==
    /\ reqs[r].pc = "mutated"
    /\ IF Valid(reqs[r].mem)
       THEN /\ reqs' = [reqs EXCEPT ![r] = [@ EXCEPT !.pc = "saving", !.sent = reqs[r].mem]]
            /\ UNCHANGED resp
       ELSE Answer(r, 500, "server error", 0)
    /\ UNCHANGED <<lessonDocs, quizDocs, course, progress, now, gQuiz, gAnswers, gScore>>

\* the update of save() reaches the store: it fails when the record is gone, on a
\* version conflict and when the store rejects it, else it applies the changes to the
\* stored record
SaveWrite(r) ==
    /\ reqs[r].pc = "saving"
    /\ LET base == reqs[r].doc
           sent == reqs[r].sent
       IN IF \/ reqs[r].lost
             \/ Positional(base, sent) /\ reqs[r].behind
             \/ UpdateFails(progress[1], base, sent)
          THEN /\ Answer(r, 500, "server error", 0)
               /\ UNCHANGED progress
          ELSE /\ progress' = [progress EXCEPT ![1] = Save(@, base, sent)]
               /\ reqs' = [q \in Reqs |->
                             IF q = r THEN [reqs[r] EXCEPT !.pc = "saved"]
                             ELSE [reqs[q] EXCEPT !.behind = @ \/ Pushes(base, sent)]]
               /\ UNCHANGED resp
    /\ UNCHANGED <<lessonDocs, quizDocs, course, now, gQuiz, gAnswers, gScore>>

\* building the response throws a TypeError: completedLessonsCount of POST /:id/complete
\* meets a null element; the find of PUT /:id/progress meets an entry whose lesson a
\* populate has set to null; progress.course.title of the certificate route reads a
\* course that its populate has set to null
RespondThrows(slot) ==
    \/ slot.route = "complete" /\ CountThrows(slot.mem)
    \/ slot.route = "progress" /\ "lesson" \in slot.nulls
    \/ slot.route = "certificate" /\ "course" \in slot.nulls

\* the await of the save returns and the route answers with the overallProgress of
\* the in-memory document
Respond(r) ==
    /\ reqs[r].pc = "saved"
    /\ IF RespondThrows(reqs[r])
       THEN Answer(r, 500, "server error", 0)
       ELSE Answer(r, 200, "ok", reqs[r].mem.overallProgress)
    /\ UNCHANGED <<lessonDocs, quizDocs, course, progress, now, gQuiz, gAnswers, gScore>>

(***************************************************************************)
(* POST /api/progress/course/:courseId/certificate.                        *)
(***************************************************************************)
IssueCertificateNoDate(doc, date) ==
    [doc EXCEPT !.certificateIssued = TRUE]

\* progress.certificateIssued = true; progress.certificateIssuedAt = new Date()
IssueCertificate(doc, date) ==
    [doc EXCEPT !.certificateIssued = TRUE, !.certificateIssuedAt = date]

NotEligibleNever(doc) == FALSE

\* progress.overallProgress !== 100
NotEligible(doc) == doc.overallProgress # FullProgress

\* the route up to const progress = await Progress.findOne(...).populate('course', 'title')
FindCertified(r) ==
    /\ Free(r)
    /\ IF Len(progress) = 0
       THEN AnswerAtOnce(r, "certificate", "none", 404, "progress not found")
       ELSE /\ reqs' = [reqs EXCEPT ![r] =
                          [Loaded(Started("certificate", "none", NoBody, NoQuiz, "loaded"),
                                  progress[1])
                              EXCEPT !.nulls = {p \in {"course"} : ~course.exists}]]
            /\ UNCHANGED resp
    /\ UNCHANGED <<lessonDocs, quizDocs, course, progress, now, gQuiz, gAnswers, gScore>>

\* the checks made on the loaded document and the issue, dated now, up to
\* await progress.save()
IssueOrRefuse(r) ==
    /\ reqs[r].pc = "loaded"
    /\ reqs[r].route = "certificate"
    /\ IF NotEligible(reqs[r].doc)
       THEN Answer(r, 400, "not eligible", 0)
       ELSE IF reqs[r].doc.certificateIssued
       THEN Answer(r, 400, "already issued", 0)
       ELSE /\ reqs' = [reqs EXCEPT ![r] =
                          [@ EXCEPT !.pc = "mutated", !.mem = IssueCertificate(@, now)]]
            /\ UNCHANGED resp
    /\ UNCHANGED <<lessonDocs, quizDocs, course, progress, now, gQuiz, gAnswers, gScore>>

(***************************************************************************)
(* POST /api/courses/:id/enroll (the update of the user document is left   *)
(* out: no operation of the model reads it).                               *)
(***************************************************************************)
\* the route up to const course = await Course.findById(req.params.id) and the checks
\* of course.isPublished and course.isUserEnrolled
EnrollCheck(r) ==
    /\ Free(r)
    /\ IF ~course.exists
       THEN AnswerAtOnce(r, "enroll", "none", 404, "course not found")
       ELSE IF ~course.isPublished
       THEN AnswerAtOnce(r, "enroll", "none", 400, "course is not published")
       ELSE IF course.enrolled
       THEN AnswerAtOnce(r, "enroll", "none", 400, "already enrolled")
       ELSE /\ reqs' = [reqs EXCEPT ![r] = Started("enroll", "none", NoBody, NoQuiz,
                                                   "enrolling")]
            /\ UNCHANGED resp
    /\ UNCHANGED <<lessonDocs, quizDocs, course, progress, now, gQuiz, gAnswers, gScore>>

\* await course.enrollUser(req.user.id): the enrollment is pushed and the course
\* saved, which fails when the course is gone
EnrollUser(r) ==
    /\ reqs[r].pc = "enrolling"
    /\ IF course.exists
       THEN /\ course' = [course EXCEPT !.enrolled = TRUE]
            /\ reqs' = [reqs EXCEPT ![r] = [@ EXCEPT !.pc = "creating"]]
            /\ UNCHANGED resp
       ELSE /\ Answer(r, 500, "server error", 0)
            /\ UNCHANGED course
    /\ UNCHANGED <<lessonDocs, quizDocs, progress, now, gQuiz, gAnswers, gScore>>

(***************************************************************************)
(* The routes of the admin that change the content of the course.          *)
(***************************************************************************)
\* an optional field of a body: no element when it is left out, else its value
Absent == << >>
Given(value) == <<value>>

\* a body of the lesson routes: the length of the title, the videoUrl ("url" matches
\* the pattern of lessonSchema.videoUrl, "uri" is a URI that does not), the order
LessonBody(title, videoUrl, order) == [title |-> title, videoUrl |-> videoUrl, order |-> order]

\* schemas.updateLesson, of the fields the model keeps
updateLesson(body) ==
    /\ body.title # Absent => body.title[1] \in 3..100
    /\ body.order # Absent => body.order[1] >= 1

\* schemas.createLesson, of the fields the model keeps
createLesson(body) ==
    /\ body.title # Absent
    /\ body.videoUrl # Absent
    /\ body.order # Absent
    /\ updateLesson(body)

\* a body of the quiz routes: the length of the title, the questions, passingScore,
\* maxAttempts, isActive
QuizBody(title, questions, passingScore, maxAttempts, isActive) ==
    [title |-> title, questions |-> questions, passingScore |-> passingScore,
     maxAttempts |-> maxAttempts, isActive |-> isActive]

\* schemas.updateQuiz, of the fields the model keeps
updateQuiz(body) ==
    /\ body.title # Absent => body.title[1] \in 3..100
    /\ body.questions # Absent =>
          /\ Len(body.questions[1]) >= 1
          /\ \A i \in 1..Len(body.questions[1]) :
                /\ Len(body.questions[1][i].options) \in 2..6
                /\ body.questions[1][i].points >= 0
    /\ body.passingScore # Absent => body.passingScore[1] \in 0..100
    /\ body.maxAttempts # Absent => body.maxAttempts[1] >= 0

\* schemas.createQuiz, of the fields the model keeps: isActive is not a key of it
createQuiz(body) ==
    /\ body.title # Absent
    /\ body.questions # Absent
    /\ body.isActive = Absent
    /\ updateQuiz(body)

\* the update { $set: body } of Quiz.findByIdAndUpdate on a quiz document
SetQuiz(quiz, body) ==
    [quiz EXCEPT
        !.questions = IF body.questions = Absent THEN @ ELSE body.questions[1],
        !.passingScore = IF body.passingScore = Absent THEN @ ELSE body.passingScore[1],
        !.maxAttempts = IF body.maxAttempts = Absent THEN @ ELSE body.maxAttempts[1],
        !.isActive = IF body.isActive = Absent THEN @ ELSE body.isActive[1]]

\* new Quiz(quizData): the defaults of quizSchema, then the fields of the body
QuizOf(quizId, body) ==
    SetQuiz([id |-> quizId, questions |-> << >>, passingScore |-> DefaultPassingScore,
             maxAttempts |-> 0, isActive |-> TRUE], body)

\* questionSchema.pre('save'): this.options.some(option => option.isCorrect)
hasCorrectAnswer(question) ==
    \E i \in 1..Len(question.options) : question.options[i].isCorrect

\* the unique index { course: 1, order: 1 } rejects the order for a lesson other than
\* lessonId
OrderTaken(docs, lessonId, order) == \E d \in docs : d.id # lessonId /\ d.order = order

\* the ids a progress document refers to
Referred(doc) ==
    {doc.lessonsProgress[i].lesson : i \in 1..Len(doc.lessonsProgress)}
    \cup {doc.quizAttempts[i].quiz : i \in 1..Len(doc.quizAttempts)}

\* a new ObjectId: an id that no document, stored or held by a request, carries or
\* refers to
NewId(id) ==
    /\ id \notin LessonIdsOf(lessonDocs) \cup QuizIdsOf(quizDocs)
    /\ id \notin course.lessons \cup course.quizzes
    /\ \A i \in 1..Len(progress) : id \notin Referred(progress[i])
    /\ \A r \in Reqs : /\ id # reqs[r].target
                        /\ id \notin Referred(reqs[r].doc) \cup Referred(reqs[r].mem)
                        /\ id \notin Referred(reqs[r].sent)
                        /\ \A u \in reqs[r].pending : id # u.id

\* POST /api/lessons/:courseId: validate(schemas.createLesson), then up to
\* const course = await Course.findById(req.params.courseId) and the check of its result
PostLessonFind(r, body) ==
    /\ Free(r)
    /\ IF ~createLesson(body)
       THEN AnswerAtOnce(r, "createLesson", "none", 400, "validation error")
       ELSE IF ~course.exists
       THEN AnswerAtOnce(r, "createLesson", "none", 404, "course not found")
       ELSE /\ reqs' = [reqs EXCEPT ![r] =
                          [Started("createLesson", "none", NoBody, NoQuiz, "inserting")
                              EXCEPT !.lesson = [order |-> body.order[1],
                                                 video |-> body.videoUrl[1]]]]
            /\ UNCHANGED resp
    /\ UNCHANGED <<lessonDocs, quizDocs, course, progress, now, gQuiz, gAnswers, gScore>>

\* const lesson = await Lesson.create(lessonData): the validation of lessonSchema,
\* then the insert under a new _id, which the unique index on the order can reject
LessonCreate(r, lessonId) ==
    /\ reqs[r].pc = "inserting"
    /\ reqs[r].route = "createLesson"
    /\ NewId(lessonId)
    /\ IF reqs[r].lesson.video # "url"
       THEN /\ Answer(r, 500, "server error", 0)
            /\ UNCHANGED lessonDocs
       ELSE IF OrderTaken(lessonDocs, lessonId, reqs[r].lesson.order)
       THEN /\ Answer(r, 400, "a lesson with this order already exists in this course", 0)
            /\ UNCHANGED lessonDocs
       ELSE /\ lessonDocs' = lessonDocs \cup {LessonDoc(lessonId, reqs[r].lesson.order)}
            /\ reqs' = [reqs EXCEPT ![r] = [@ EXCEPT !.pc = "attaching", !.target = lessonId]]
            /\ UNCHANGED resp
    /\ UNCHANGED <<quizDocs, course, progress, now, gQuiz, gAnswers, gScore>>

\* POST /api/quizzes/:courseId: validate(schemas.createQuiz), then up to
\* const course = await Course.findById(req.params.courseId) and the check of its result
PostQuizFind(r, body) ==
    /\ Free(r)
    /\ IF ~createQuiz(body)
       THEN AnswerAtOnce(r, "createQuiz", "none", 400, "validation error")
       ELSE IF ~course.exists
       THEN AnswerAtOnce(r, "createQuiz", "none", 404, "course not found")
       ELSE /\ reqs' = [reqs EXCEPT ![r] =
                          Started("createQuiz", "none", NoBody, QuizOf("none", body),
                                  "inserting")]
            /\ UNCHANGED resp
    /\ UNCHANGED <<lessonDocs, quizDocs, course, progress, now, gQuiz, gAnswers, gScore>>

\* const quiz = await Quiz.create(quizData): the pre('save') hook of every question,
\* then the insert under a new _id
QuizCreate(r, quizId) ==
    /\ reqs[r].pc = "inserting"
    /\ reqs[r].route = "createQuiz"
    /\ NewId(quizId)
    /\ IF \E i \in 1..Len(reqs[r].quiz.questions) : ~hasCorrectAnswer(reqs[r].quiz.questions[i])
       THEN /\ Answer(r, 500, "server error", 0)
            /\ UNCHANGED quizDocs
       ELSE /\ quizDocs' = quizDocs \cup {[reqs[r].quiz EXCEPT !.id = quizId]}
            /\ reqs' = [reqs EXCEPT ![r] = [@ EXCEPT !.pc = "attaching", !.target = quizId]]
            /\ UNCHANGED resp
    /\ UNCHANGED <<lessonDocs, course, progress, now, gQuiz, gAnswers, gScore>>

\* course.lessons.push(lesson._id) or course.quizzes.push(quiz._id), await course.save()
\* and the response; the save fails when the course is gone
Attach(r) ==
    /\ reqs[r].pc = "attaching"
    /\ IF ~course.exists
       THEN /\ Answer(r, 500, "server error", 0)
            /\ UNCHANGED course
       ELSE /\ course' = IF reqs[r].route = "createLesson"
                         THEN [course EXCEPT !.lessons = @ \cup {reqs[r].target}]
                         ELSE [course EXCEPT !.quizzes = @ \cup {reqs[r].target}]
            /\ Answer(r, 201, "ok", 0)
    /\ UNCHANGED <<lessonDocs, quizDocs, progress, now, gQuiz, gAnswers, gScore>>

\* a body of PUT /api/courses/:id: the length of the title, isPublished
CourseBody(title, isPublished) == [title |-> title, isPublished |-> isPublished]

\* schemas.updateCourse, of the fields the model keeps
updateCourse(body) == body.title # Absent => body.title[1] \in 5..100

\* PUT /api/courses/:id: validate(schemas.updateCourse), then
\* Course.findByIdAndUpdate(req.params.id, req.body) with runValidators
PutCourse(r, body) ==
    /\ Free(r)
    /\ IF ~updateCourse(body)
       THEN /\ AnswerAtOnce(r, "updateCourse", "none", 400, "validation error")
            /\ UNCHANGED course
       ELSE IF ~course.exists
       THEN /\ AnswerAtOnce(r, "updateCourse", "none", 404, "course not found")
            /\ UNCHANGED course
       ELSE /\ course' = IF body.isPublished = Absent THEN course
                         ELSE [course EXCEPT !.isPublished = body.isPublished[1]]
            /\ reqs' = [reqs EXCEPT ![r] = Returned("updateCourse", "none", 200)]
            /\ resp' = Reply("updateCourse", 200, "ok", 0)
    /\ UNCHANGED <<lessonDocs, quizDocs, progress, now, gQuiz, gAnswers, gScore>>

\* PUT /api/quizzes/:id: validate(schemas.updateQuiz), then
\* Quiz.findByIdAndUpdate(req.params.id, req.body), which runs no save hook
PutQuiz(r, quizId, body) ==
    /\ Free(r)
    /\ IF ~updateQuiz(body)
       THEN /\ AnswerAtOnce(r, "updateQuiz", quizId, 400, "validation error")
            /\ UNCHANGED quizDocs
       ELSE IF quizId \notin QuizIdsOf(quizDocs)
       THEN /\ AnswerAtOnce(r, "updateQuiz", quizId, 404, "quiz not found")
            /\ UNCHANGED quizDocs
       ELSE /\ quizDocs' = {IF d.id = quizId THEN SetQuiz(d, body) ELSE d : d \in quizDocs}
            /\ reqs' = [reqs EXCEPT ![r] = Returned("updateQuiz", quizId, 200)]
            /\ resp' = Reply("updateQuiz", 200, "ok", 0)
    /\ UNCHANGED <<lessonDocs, course, progress, now, gQuiz, gAnswers, gScore>>

\* PUT /api/lessons/:id: validate(schemas.updateLesson), then
\* Lesson.findByIdAndUpdate(req.params.id, req.body) with runValidators
PutLesson(r, lessonId, body) ==
    /\ Free(r)
    /\ IF ~updateLesson(body)
       THEN /\ AnswerAtOnce(r, "updateLesson", lessonId, 400, "validation error")
            /\ UNCHANGED lessonDocs
       ELSE IF body.videoUrl = Given("uri")
       THEN /\ AnswerAtOnce(r, "updateLesson", lessonId, 500, "server error")
            /\ UNCHANGED lessonDocs
       ELSE IF lessonId \notin LessonIdsOf(lessonDocs)
       THEN /\ AnswerAtOnce(r, "updateLesson", lessonId, 404, "lesson not found")
            /\ UNCHANGED lessonDocs
       ELSE IF body.order # Absent /\ OrderTaken(lessonDocs, lessonId, body.order[1])
       THEN /\ AnswerAtOnce(r, "updateLesson", lessonId, 400,
                            "a lesson with this order already exists in this course")
            /\ UNCHANGED lessonDocs
       ELSE /\ lessonDocs' = {IF d.id = lessonId /\ body.order # Absent
                              THEN LessonDoc(d.id, body.order[1]) ELSE d : d \in lessonDocs}
            /\ reqs' = [reqs EXCEPT ![r] = Returned("updateLesson", lessonId, 200)]
            /\ resp' = Reply("updateLesson", 200, "ok", 0)
    /\ UNCHANGED <<quizDocs, course, progress, now, gQuiz, gAnswers, gScore>>

\* PUT /api/lessons/course/:courseId/reorder with the elements { id, order } of
\* req.body.lessons, if that is an array, up to
\* const course = await Course.findById(req.params.courseId), the check of its result
\* and the start of one Lesson.findByIdAndUpdate(id, { order }) per element
ReorderFind(r, lessons) ==
    /\ Free(r)
    /\ IF lessons = Absent
       THEN AnswerAtOnce(r, "reorder", "none", 400, "lessons must be an array")
       ELSE IF ~course.exists
       THEN AnswerAtOnce(r, "reorder", "none", 404, "course not found")
       ELSE IF lessons[1] = {}
       THEN /\ reqs' = [reqs EXCEPT ![r] = Returned("reorder", "none", 200)]
            /\ resp' = Reply("reorder", 200, "ok", 0)
       ELSE /\ reqs' = [reqs EXCEPT ![r] =
                          [Started("reorder", "none", NoBody, NoQuiz, "reordering")
                              EXCEPT !.pending = lessons[1]]]
            /\ UNCHANGED resp
    /\ UNCHANGED <<lessonDocs, quizDocs, course, progress, now, gQuiz, gAnswers, gScore>>

\* the store answers one of the updates of a reordering, in any order: the unique
\* index can reject it, and the first rejection makes Promise.all reject and the
\* route answer 500 while the other updates go on; when none is left and none was
\* rejected the route answers 200
ReorderUpdate(r) ==
    /\ reqs[r].pc = "reordering"
    /\ \E u \in reqs[r].pending :
          LET rejected == /\ u.id \in LessonIdsOf(lessonDocs)
                          /\ OrderTaken(lessonDocs, u.id, u.order)
              status == IF rejected THEN 500 ELSE reqs[r].status
              left == reqs[r].pending \ {u}
          IN /\ lessonDocs' = IF rejected THEN lessonDocs
                              ELSE {IF d.id = u.id THEN LessonDoc(d.id, u.order) ELSE d :
                                       d \in lessonDocs}
             /\ reqs' = [reqs EXCEPT ![r] =
                            IF left = {} THEN Returned("reorder", "none", Max(status, 200))
                            ELSE [@ EXCEPT !.pending = left, !.status = status]]
             /\ resp' = IF rejected /\ reqs[r].status = 0
                        THEN Reply("reorder", 500, "server error", 0)
                        ELSE IF left = {} /\ status = 0
                        THEN Reply("reorder", 200, "ok", 0)
                        ELSE resp
    /\ UNCHANGED <<quizDocs, course, progress, now, gQuiz, gAnswers, gScore>>

DeleteRoutes == {"deleteLesson", "deleteQuiz", "deleteCourse"}

\* DELETE /api/lessons/:id up to const lesson = await Lesson.findById(req.params.id)
\* and the check of its result
DeleteLessonFind(r, lessonId) ==
    /\ Free(r)
    /\ IF lessonId \notin LessonIdsOf(lessonDocs)
       THEN AnswerAtOnce(r, "deleteLesson", lessonId, 404, "lesson not found")
       ELSE /\ reqs' = [reqs EXCEPT ![r] = Started("deleteLesson", lessonId, NoBody, NoQuiz,
                                                   "pulling")]
            /\ UNCHANGED resp
    /\ UNCHANGED <<lessonDocs, quizDocs, course, progress, now, gQuiz, gAnswers, gScore>>

\* DELETE /api/quizzes/:id up to const quiz = await Quiz.findById(req.params.id) and
\* the check of its result
DeleteQuizFind(r, quizId) ==
    /\ Free(r)
    /\ IF quizId \notin QuizIdsOf(quizDocs)
       THEN AnswerAtOnce(r, "deleteQuiz", quizId, 404, "quiz not found")
       ELSE /\ reqs' = [reqs EXCEPT ![r] = Started("deleteQuiz", quizId, NoBody, NoQuiz,
                                                   "pulling")]
            /\ UNCHANGED resp
    /\ UNCHANGED <<lessonDocs, quizDocs, course, progress, now, gQuiz, gAnswers, gScore>>

\* await Course.findByIdAndUpdate(..., { $pull: { lessons | quizzes: _id } }), which
\* updates nothing when the course is gone
PullFromCourse(r) ==
    /\ reqs[r].pc = "pulling"
    /\ course' = IF reqs[r].route = "deleteLesson"
                 THEN [course EXCEPT !.lessons = @ \ {reqs[r].target}]
                 ELSE [course EXCEPT !.quizzes = @ \ {reqs[r].target}]
    /\ reqs' = [reqs EXCEPT ![r] = [@ EXCEPT !.pc = "cascading"]]
    /\ UNCHANGED <<lessonDocs, quizDocs, progress, now, resp, gQuiz, gAnswers, gScore>>

\* $pull: { lessonsProgress: { lesson: lesson._id } }
PullLesson(doc, lessonId) ==
    [doc EXCEPT !.lessonsProgress = SelectSeq(@, LAMBDA e : e.lesson # lessonId)]

\* $pull: { quizAttempts: { quiz: quiz._id } }
PullQuiz(doc, quizId) ==
    [doc EXCEPT !.quizAttempts = SelectSeq(@, LAMBDA a : a.quiz # quizId)]

\* await Progress.updateMany({ course }, { $pull: ... })
PullFromProgress(r) ==
    /\ reqs[r].pc = "cascading"
    /\ progress' = [i \in 1..Len(progress) |->
                      IF reqs[r].route = "deleteLesson"
                      THEN PullLesson(progress[i], reqs[r].target)
                      ELSE PullQuiz(progress[i], reqs[r].target)]
    /\ reqs' = [reqs EXCEPT ![r] = [@ EXCEPT !.pc = "deleting"]]
    /\ UNCHANGED <<lessonDocs, quizDocs, course, now, resp, gQuiz, gAnswers, gScore>>

\* DELETE /api/courses/:id up to const course = await Course.findById(req.params.id)
\* and the check of its result
DeleteCourseFind(r) ==
    /\ Free(r)
    /\ IF ~course.exists
       THEN AnswerAtOnce(r, "deleteCourse", "none", 404, "course not found")
       ELSE /\ reqs' = [reqs EXCEPT ![r] = Started("deleteCourse", "none", NoBody, NoQuiz,
                                                   "lessons")]
            /\ UNCHANGED resp
    /\ UNCHANGED <<lessonDocs, quizDocs, course, progress, now, gQuiz, gAnswers, gScore>>

\* await Lesson.deleteMany({ course }), then await Quiz.deleteMany({ course }), then
\* await Progress.deleteMany({ course }): one collection a step.  A request that
\* holds a progress document then holds one that is no longer stored.  The
\* User.updateMany that follows changes nothing the model keeps.
DeleteMany(r) ==
    /\ reqs[r].pc \in {"lessons", "quizzes", "records"}
    /\ lessonDocs' = IF reqs[r].pc = "lessons" THEN {} ELSE lessonDocs
    /\ quizDocs' = IF reqs[r].pc = "quizzes" THEN {} ELSE quizDocs
    /\ progress' = IF reqs[r].pc = "records" THEN << >> ELSE progress
    /\ reqs' = [s \in Reqs |->
                  IF s = r
                  THEN [reqs[r] EXCEPT !.pc = IF reqs[r].pc = "lessons" THEN "quizzes"
                                              ELSE IF reqs[r].pc = "quizzes" THEN "records"
                                              ELSE "deleting"]
                  ELSE IF reqs[r].pc = "records" /\ ~Free(s)
                  THEN [reqs[s] EXCEPT !.lost = TRUE]
                  ELSE reqs[s]]
    /\ UNCHANGED <<course, now, resp, gQuiz, gAnswers, gScore>>

\* await lesson.deleteOne(), await quiz.deleteOne() or await course.deleteOne(), and
\* the response
DeleteOne(r) ==
    /\ reqs[r].pc = "deleting"
    /\ lessonDocs' = IF reqs[r].route = "deleteLesson"
                     THEN {d \in lessonDocs : d.id # reqs[r].target} ELSE lessonDocs
    /\ quizDocs' = IF reqs[r].route = "deleteQuiz"
                   THEN {d \in quizDocs : d.id # reqs[r].target} ELSE quizDocs
    /\ course' = IF reqs[r].route = "deleteCourse" THEN NoCourse ELSE course
    /\ Answer(r, 200, "ok", 0)
    /\ UNCHANGED <<progress, now, gQuiz, gAnswers, gScore>>

\* time passes
Tick ==
    /\ now < MaxClock
    /\ now' = now + 1
    /\ UNCHANGED <<lessonDocs, quizDocs, course, progress, resp, reqs, gQuiz, gAnswers, gScore>>

\* no call of calculateScore has returned yet
NoScore == [graded |-> FALSE,
            result |-> [correctAnswers |-> 0, totalQuestions |-> 0, earnedPoints |-> 0,
                        totalPoints |-> 0, percentage |-> 0, passed |-> FALSE]]

\* the part of the state the grading specification works on, when unused
GradingIdle ==
    /\ gQuiz = NoQuiz
    /\ gAnswers = << >>
    /\ gScore = NoScore

(***************************************************************************)
(* The routes that report on the quizzes: GET /api/quizzes/:id,            *)
(* GET /api/quizzes/:id/results, GET /api/quizzes/course/:courseId, and    *)
(* the methods of a progress document they are compared with.              *)
(***************************************************************************)
\* canAttempt of GET /api/quizzes/:id
CanAttempt(quiz) ==
    IF Len(progress) = 0 THEN TRUE
    ELSE ~(quiz.maxAttempts > 0 /\ ExistingAttempts(progress[1], quiz.id) >= quiz.maxAttempts)

\* const attempts = progress.quizAttempts.filter(attempt => attempt.quiz ... === quiz id)
AttemptsOf(doc, quizId) == SelectSeq(doc.quizAttempts, LAMBDA a : a.quiz = quizId)

\* attempts.reduce((best, current) =>
\*     current.score.percentage > best.score.percentage ? current : best)
\* over the first n elements of a non-empty array, without an initial value
RECURSIVE ReduceBest(_, _)
ReduceBest(attempts, n) ==
    IF n = 1 THEN attempts[1]
    ELSE LET best == ReduceBest(attempts, n - 1)
         IN IF attempts[n].score.percentage > best.score.percentage
            THEN attempts[n] ELSE best

\* a best score as a route reports it: no element for null, else the score at 1
BestOrNull(attempts) ==
    IF Len(attempts) > 0 THEN <<ReduceBest(attempts, Len(attempts)).score>> ELSE << >>

\* bestScore of GET /api/quizzes/:id: null without a progress record
BestScoreForTaking(quizId) ==
    IF Len(progress) = 0 THEN << >> ELSE BestOrNull(AttemptsOf(progress[1], quizId))

\* GET /api/quizzes/:id from const progress = await Progress.findOne(...) to the response
GetQuiz(r) ==
    /\ reqs[r].pc = "course"
    /\ reqs[r].route = "getQuiz"
    /\ reqs' = [reqs EXCEPT ![r] = Returned(reqs[r].route, reqs[r].target, 200)]
    /\ resp' = [route |-> "getQuiz", status |-> 200, message |-> "ok",
                overallProgress |-> 0,
                canAttempt |-> CanAttempt(reqs[r].quiz),
                bestScore |-> BestScoreForTaking(reqs[r].target)]
    /\ UNCHANGED <<lessonDocs, quizDocs, course, progress, now, gQuiz, gAnswers, gScore>>

\* attempts.sort((a, b) => new Date(b.completedAt) - new Date(a.completedAt)) of the
\* first n attempts: newest first, attempts of one date in their stored order
RECURSIVE SortNewestFirst(_, _)
SortNewestFirst(attempts, n) ==
    IF n = 0 THEN << >>
    ELSE LET sorted == SortNewestFirst(attempts, n - 1)
             k == Cardinality({i \in 1..Len(sorted) :
                                  sorted[i].completedAt >= attempts[n].completedAt})
         IN SubSeq(sorted, 1, k) \o <<attempts[n]>> \o SubSeq(sorted, k + 1, Len(sorted))

\* GET /api/quizzes/:id/results from const progress = await Progress.findOne(...) to
\* the response
GetResults(r) ==
    /\ reqs[r].pc = "course"
    /\ reqs[r].route = "getResults"
    /\ IF Len(progress) = 0 \/ Len(AttemptsOf(progress[1], reqs[r].target)) = 0
       THEN Answer(r, 404, "no quiz attempts found", 0)
       ELSE LET attempts == AttemptsOf(progress[1], reqs[r].target)
            IN /\ reqs' = [reqs EXCEPT ![r] = Returned(reqs[r].route, reqs[r].target, 200)]
               /\ resp' = [route |-> "getResults", status |-> 200, message |-> "ok",
                           overallProgress |-> 0,
                           bestScore |->
                              BestOrNull(SortNewestFirst(attempts, Len(attempts)))]
    /\ UNCHANGED <<lessonDocs, quizDocs, course, progress, now, gQuiz, gAnswers, gScore>>

\* GET /api/quizzes/course/:courseId up to const course = await Course.findById(...)
\* and the checks of its result
GetQuizzesCourse(r) ==
    /\ Free(r)
    /\ IF ~course.exists
       THEN AnswerAtOnce(r, "getQuizzes", "none", 404, "course not found")
       ELSE IF ~course.enrolled
       THEN AnswerAtOnce(r, "getQuizzes", "none", 403, "not enrolled")
       ELSE /\ reqs' = [reqs EXCEPT ![r] = Started("getQuizzes", "none", NoBody, NoQuiz,
                                                   "course")]
            /\ UNCHANGED resp
    /\ UNCHANGED <<lessonDocs, quizDocs, course, progress, now, gQuiz, gAnswers, gScore>>

\* const quizzes = await Quiz.find({ course, isActive: true })
GetQuizzesFind(r) ==
    /\ reqs[r].pc = "course"
    /\ reqs[r].route = "getQuizzes"
    /\ reqs' = [reqs EXCEPT ![r] = [@ EXCEPT !.pc = "listed",
                                             !.list = {d.id : d \in {x \in quizDocs : x.isActive}}]]
    /\ UNCHANGED <<lessonDocs, quizDocs, course, progress, now, resp, gQuiz, gAnswers, gScore>>

\* GET /api/quizzes/course/:courseId from const progress = await Progress.findOne(...)
\* to the response: the progress entry of every quiz found, none without a record
GetQuizzes(r) ==
    /\ reqs[r].pc = "listed"
    /\ reqs' = [reqs EXCEPT ![r] = Returned(reqs[r].route, reqs[r].target, 200)]
    /\ resp' = [route |-> "getQuizzes", status |-> 200, message |-> "ok",
                overallProgress |-> 0,
                quizProgress |->
                   IF Len(progress) = 0 THEN [q \in {} |-> << >>]
                   ELSE [q \in reqs[r].list |-> BestOrNull(AttemptsOf(progress[1], q))]]
    /\ UNCHANGED <<lessonDocs, quizDocs, course, progress, now, gQuiz, gAnswers, gScore>>

\* progressSchema.methods.getBestQuizScore: the best attempt, no element for null
getBestQuizScore(doc, quizId) ==
    LET attempts == AttemptsOf(doc, quizId)
    IN IF Len(attempts) = 0 THEN << >> ELSE <<ReduceBest(attempts, Len(attempts))>>

\* virtual bestQuizScores, its Map after the first n attempts: quiz id -> score
\* (the order of the Map's entries is left out)
RECURSIVE QuizScores(_, _)
QuizScores(doc, n) ==
    IF n = 0 THEN [q \in {} |-> NoScore.result]
    ELSE LET quizScores == QuizScores(doc, n - 1)
             attempt == doc.quizAttempts[n]
         IN IF attempt.quiz \notin DOMAIN quizScores
               \/ attempt.score.percentage > quizScores[attempt.quiz].percentage
            THEN [q \in DOMAIN quizScores \cup {attempt.quiz} |->
                     IF q = attempt.quiz THEN attempt.score ELSE quizScores[q]]
            ELSE quizScores

bestQuizScores(doc) == QuizScores(doc, Len(doc.quizAttempts))

\* progress.getBestQuizScore(quizId)
GetBestQuizScore(quizId) ==
    /\ Len(progress) > 0
    /\ resp' = [route |-> "getBestQuizScore", status |-> 0, message |-> "returned",
                overallProgress |-> 0,
                bestAttempt |-> getBestQuizScore(progress[1], quizId)]
    /\ UNCHANGED <<lessonDocs, quizDocs, course, progress, now, reqs, gQuiz, gAnswers, gScore>>

\* progress.bestQuizScores
BestQuizScores ==
    /\ Len(progress) > 0
    /\ resp' = [route |-> "bestQuizScores", status |-> 0, message |-> "returned",
                overallProgress |-> 0,
                bestScores |-> bestQuizScores(progress[1])]
    /\ UNCHANGED <<lessonDocs, quizDocs, course, progress, now, reqs, gQuiz, gAnswers, gScore>>

(***************************************************************************)
(* The slots of the specifications.  The slot Serial carries requests one  *)
(* after the other, each answered before the next is sent: a learner who   *)
(* does one thing at a time.  The slot Admin carries requests of the admin *)
(* that run while those do.  What is sent is bounded: a submission while   *)
(* the record holds fewer than MaxAttemptsStored attempts or the quiz      *)
(* allows no further attempt, a timeSpent that keeps the total of the      *)
(* lesson's entry within -1..MaxTimeSpent, a creation while an id is left. *)
(***************************************************************************)
Serial == "r1"
Admin == "r2"

RoomForAttempt(quizId) ==
    \A k \in 1..Len(progress) :
        \/ Len(progress[k].quizAttempts) < MaxAttemptsStored
        \/ /\ quizId \in QuizIdsOf(quizDocs)
           /\ LimitReached(QuizById(quizDocs, quizId), progress[k])

RoomForLesson == \E l \in LessonIds : NewId(l)

RoomForQuiz == \E q \in QuizIds : NewId(q)

\* a body that schemas.createLesson and lessonSchema accept, at an order
LessonAt(order) == LessonBody(Given(8), Given("url"), Given(order))

\* the body the API test creates its quiz with, and bodies that set one field
TestQuiz == QuizBody(Given(8), Given(TestQuestions), Absent, Absent, Absent)
NoFields == QuizBody(Absent, Absent, Absent, Absent, Absent)

\* lesson bodies: a free order, the order of the first lesson, no title and no
\* videoUrl, a videoUrl that lessonSchema rejects
LessonBodies ==
    {LessonAt(2), LessonAt(1), LessonBody(Absent, Absent, Given(2)),
     LessonBody(Given(8), Given("uri"), Given(2))}

\* quiz bodies of a creation: the quiz of the API test, no questions, a question
\* without a correct option
QuizBodies ==
    {TestQuiz, [TestQuiz EXCEPT !.questions = Absent],
     [TestQuiz EXCEPT !.questions =
         Given(<< [options |-> <<Option("a", FALSE), Option("b", FALSE)>>, points |-> 1] >>)]}

\* bodies of PUT /api/quizzes/:id: isActive, maxAttempts 1, passingScore 50, the
\* first question alone, a passingScore out of range
QuizPatches ==
    {[NoFields EXCEPT !.isActive = Given(active)] : active \in BOOLEAN}
    \cup {[NoFields EXCEPT !.maxAttempts = Given(1)],
          [NoFields EXCEPT !.passingScore = Given(50)],
          [NoFields EXCEPT !.questions = Given(SubSeq(TestQuestions, 1, 1))],
          [NoFields EXCEPT !.passingScore = Given(101)]}

\* bodies of PUT /api/courses/:id: isPublished, a title too short
CoursePatches ==
    {CourseBody(Absent, Given(published)) : published \in BOOLEAN}
    \cup {CourseBody(Given(4), Absent)}

\* the body that publishes the course
Publication == CourseBody(Absent, Given(TRUE))

TimeInRange(lessonId, timeSpent) ==
    \A k \in 1..Len(progress) : \A i \in 1..Len(progress[k].lessonsProgress) :
        progress[k].lessonsProgress[i].lesson = lessonId =>
            /\ progress[k].lessonsProgress[i].timeSpent + timeSpent <= MaxTimeSpent
            /\ progress[k].lessonsProgress[i].timeSpent + timeSpent >= -1

\* the steps between the call of a mutator and the response of its route
SaveSteps(r) ==
    \/ Populate(r)
    \/ Recompute(r)
    \/ SaveChanges(r)
    \/ SaveWrite(r)
    \/ Respond(r)

(***************************************************************************)
(* The life of one enrollment: a course as created, not published, with a  *)
(* first lesson, with or without a quiz, nobody enrolled, no progress      *)
(* record.  The admin publishes the course; the learner enrolls, completes *)
(* and watches lessons, submits the quiz and asks for the certificate;     *)
(* between two requests the admin adds lessons and quizzes.  Requests in   *)
(* flight at once are the subject of SpecConc, SpecCreate and SpecCert.    *)
(***************************************************************************)
Init ==
    /\ lessonDocs = Lessons({"l1"})
    /\ quizDocs \in {{}} \cup {{NewQuiz(q, 0)} : q \in QuizIds}
    /\ course = Course(LessonIdsOf(lessonDocs), QuizIdsOf(quizDocs), FALSE, FALSE)
    /\ progress = << >>
    /\ now = 1
    /\ resp = NoReply
    /\ reqs = [r \in Reqs |-> IdleReq]
    /\ GradingIdle

Next ==
    \/ PutCourse(Serial, Publication)
    \/ EnrollCheck(Serial)
    \/ EnrollUser(Serial)
    \/ \E l \in LessonIds : FindLesson(Serial, "complete", l, 0, DefaultWatched)
    \/ \E l \in LessonIds : FindLesson(Serial, "progress", l, 0, WatchedAbove)
    \/ \E q \in QuizIds, a \in GradedAnswers :
          RoomForAttempt(q) /\ FindQuiz(Serial, "submit", q, a)
    \/ FindCourse(Serial)
    \/ FindProgress(Serial)
    \/ Create(Serial)
    \/ CallLessonMutator(Serial)
    \/ CheckAndAddAttempt(Serial)
    \/ SaveSteps(Serial)
    \/ FindCertified(Serial)
    \/ IssueOrRefuse(Serial)
    \/ \E body \in LessonBodies : RoomForLesson /\ PostLessonFind(Serial, body)
    \/ \E l \in LessonIds : LessonCreate(Serial, l)
    \/ \E body \in QuizBodies : RoomForQuiz /\ PostQuizFind(Serial, body)
    \/ \E q \in QuizIds : QuizCreate(Serial, q)
    \/ Attach(Serial)
    \/ Tick

Spec == Init /\ [][Next]_vars

(***************************************************************************)
(* The same learner on a course of any content, which no longer changes    *)
(* once the admin has published the course.                                *)
(***************************************************************************)
InitFixed ==
    /\ lessonDocs \in {Lessons(ls) : ls \in SUBSET LessonIds}
    /\ quizDocs \in {{}} \cup {{NewQuiz(q, 0)} : q \in QuizIds}
    /\ course = Course(LessonIdsOf(lessonDocs), QuizIdsOf(quizDocs), FALSE, FALSE)
    /\ progress = << >>
    /\ now = 1
    /\ resp = NoReply
    /\ reqs = [r \in Reqs |-> IdleReq]
    /\ GradingIdle

NextFixed ==
    \/ PutCourse(Serial, Publication)
    \/ EnrollCheck(Serial)
    \/ EnrollUser(Serial)
    \/ \E l \in LessonIds : FindLesson(Serial, "complete", l, 0, DefaultWatched)
    \/ \E q \in QuizIds, a \in GradedAnswers :
          RoomForAttempt(q) /\ FindQuiz(Serial, "submit", q, a)
    \/ FindCourse(Serial)
    \/ FindProgress(Serial)
    \/ Create(Serial)
    \/ CallLessonMutator(Serial)
    \/ CheckAndAddAttempt(Serial)
    \/ SaveSteps(Serial)
    \/ FindCertified(Serial)
    \/ IssueOrRefuse(Serial)
    \/ Tick

SpecFixed == InitFixed /\ [][NextFixed]_vars

(***************************************************************************)
(* The lesson routes alone: a course of two lessons and no quiz, the        *)
(* learner enrolled, the progress record created by the enrollment.  The   *)
(* requests for the first lesson carry every input, those for the other    *)
(* lesson one.                                                             *)
(***************************************************************************)
InitLesson ==
    /\ lessonDocs = Lessons(LessonIds)
    /\ quizDocs = {}
    /\ course = Course(LessonIds, {}, TRUE, TRUE)
    /\ progress = <<NewProgress>>
    /\ now = 1
    /\ resp = NoReply
    /\ reqs = [r \in Reqs |-> IdleReq]
    /\ GradingIdle

NextLesson ==
    \/ \E route \in LessonRoutes, t \in CompleteTimes, w \in WatchedInputs :
          TimeInRange("l1", t) /\ FindLesson(Serial, route, "l1", t, w)
    \/ \E route \in LessonRoutes, l \in LessonIds \ {"l1"} :
          FindLesson(Serial, route, l, 0, WatchedAbove)
    \/ FindCourse(Serial)
    \/ FindProgress(Serial)
    \/ CallLessonMutator(Serial)
    \/ SaveSteps(Serial)
    \/ Tick

SpecLesson == InitLesson /\ [][NextLesson]_vars

(***************************************************************************)
(* The quiz routes alone: a course with one quiz, with or without an       *)
(* attempt limit, which the admin updates: deactivated and activated, a    *)
(* limit of one attempt, a lower passing score, fewer questions.  The      *)
(* learner is enrolled or not; an enrolled learner may have no progress    *)
(* record yet, as between course.enrollUser and Progress.create of the     *)
(* enrollment.  The course of an enrolled learner is published, as it was  *)
(* when they enrolled; another course is published or not, and the admin   *)
(* publishes it.                                                           *)
(***************************************************************************)
InitQuiz ==
    /\ lessonDocs = Lessons({"l1"})
    /\ quizDocs \in {{NewQuiz(q, m)} : q \in QuizIds, m \in {0, MaxAttemptsStored}}
    /\ course \in {Course(ls, QuizIds, e, p) :
                      ls \in SUBSET LessonIdsOf(lessonDocs), e \in BOOLEAN, p \in BOOLEAN}
    /\ course.enrolled => course.isPublished
    /\ progress \in {<< >>, <<NewProgress>>}
    /\ ~course.enrolled => progress = << >>
    /\ now = 1
    /\ resp = NoReply
    /\ reqs = [r \in Reqs |-> IdleReq]
    /\ GradingIdle

NextQuiz ==
    \/ PutCourse(Admin, Publication)
    \/ EnrollCheck(Serial)
    \/ EnrollUser(Serial)
    \/ \E q \in QuizIds, a \in SubmitAnswers :
          RoomForAttempt(q) /\ FindQuiz(Serial, "submit", q, a)
    \/ \E q \in QuizIds : FindQuiz(Serial, "getQuiz", q, << >>)
    \/ FindCourse(Serial)
    \/ FindProgress(Serial)
    \/ Create(Serial)
    \/ CheckAndAddAttempt(Serial)
    \/ SaveSteps(Serial)
    \/ GetQuiz(Serial)
    \/ \E q \in QuizIds, body \in QuizPatches : PutQuiz(Admin, q, body)
    \/ Tick

SpecQuiz == InitQuiz /\ [][NextQuiz]_vars
(***************************************************************************)
(* The grading of one submission: a quiz and an answer list are drawn,     *)
(* calculateScore is called once, and the submit route builds the detailed *)
(* results from the score.                                                 *)
(***************************************************************************)
\* a question with the options a and b, those of correctIds marked isCorrect
Question(correctIds, points) ==
    [options |-> <<Option("a", "a" \in correctIds), Option("b", "b" \in correctIds)>>,
     points |-> points]

\* questions with one, two and no correct option, worth no, one and many points
QuestionPool ==
    { Question({"a"}, 1), Question({"b"}, 0), Question({"a", "b"}, 1), Question({}, 1),
      Question({"a"}, 23), Question({"b"}, 17) }

\* selections: nothing, one option, both, a duplicated id, both and a duplicate
Selections ==
    { << >>, <<"a">>, <<"b">>, <<"a", "b">>, <<"a", "a">>, <<"a", "b", "a">> }

SeqsUpTo(S, n) == UNION {[1..k -> S] : k \in 0..n}

\* passingScore: the default and one that a quiz of two equal questions can hit exactly
PassingScores == {50, DefaultPassingScore}

InitGrade ==
    /\ lessonDocs = {}
    /\ quizDocs = {}
    /\ course = Course({}, {}, FALSE, FALSE)
    /\ progress = << >>
    /\ now = 1
    /\ resp = NoReply
    /\ reqs = [r \in Reqs |-> IdleReq]
    /\ gQuiz \in {[id |-> "q1", questions |-> qs, passingScore |-> ps,
                   maxAttempts |-> 0, isActive |-> TRUE] :
                      qs \in SeqsUpTo(QuestionPool, MaxQuestions), ps \in PassingScores}
    /\ gAnswers \in SeqsUpTo(Selections, MaxQuestions)
    /\ gScore = NoScore

\* const score = quiz.calculateScore(answers)
Grade ==
    /\ ~gScore.graded
    /\ gScore' = [graded |-> TRUE, result |-> calculateScore(gQuiz, gAnswers)]
    /\ UNCHANGED <<lessonDocs, quizDocs, course, progress, now, resp, reqs, gQuiz, gAnswers>>

\* detailedResults of POST /:id/submit: null unless the user is an admin or passed,
\* else one element per question, its isCorrect being score.correctAnswers > index
\* for the 0-based index (the texts of a result element are left out)
DetailedResults(quiz, score, isAdmin) ==
    IF isAdmin \/ score.passed
    THEN [given |-> TRUE,
          isCorrect |-> [i \in 1..Len(quiz.questions) |-> score.correctAnswers > i - 1]]
    ELSE [given |-> FALSE, isCorrect |-> << >>]

\* POST /:id/submit from the computation of detailedResults to the response, for
\* answers that passed the route's length check
Detail(isAdmin) ==
    /\ gScore.graded
    /\ Len(gAnswers) = Len(gQuiz.questions)
    /\ resp' = [route |-> "submit", status |-> 200, message |-> "ok", overallProgress |-> 0,
                detailedResults |-> DetailedResults(gQuiz, gScore.result, isAdmin)]
    /\ UNCHANGED <<lessonDocs, quizDocs, course, progress, now, reqs, gQuiz, gAnswers, gScore>>

NextGrade ==
    \/ Grade
    \/ \E isAdmin \in BOOLEAN : Detail(isAdmin)

SpecGrade == InitGrade /\ [][NextGrade]_vars

(***************************************************************************)
(* updateOverallProgress alone: a course and a progress record of it are   *)
(* drawn, the method is called on the record and runs to its end.          *)
(***************************************************************************)
\* lesson entries as completeLesson and updateLessonProgress push them
LessonEntry(lessonId, completed) ==
    [lesson |-> lessonId, completed |-> completed,
     completedAt |-> IF completed THEN 1 ELSE Unset,
     timeSpent |-> 0,
     watchedPercentage |-> IF completed THEN DefaultWatched ELSE 0]

\* the lesson arrays of a record: at most one entry per lesson document
LessonArrays ==
    {<< >>} \cup {<<LessonEntry(l, c)>> : l \in LessonIds, c \in BOOLEAN}
    \cup {<<LessonEntry("l1", c), LessonEntry("l2", d)>> : c, d \in BOOLEAN}
    \cup {<<LessonEntry("l2", c), LessonEntry("l1", d)>> : c, d \in BOOLEAN}

\* the attempts POST /:id/submit stores for the graded answer lists
Attempts(quizId) ==
    {[quiz |-> quizId, score |-> calculateScore(NewQuiz(quizId, 0), a), completedAt |-> 1] :
        a \in GradedAnswers}

InitRecompute ==
    /\ lessonDocs = Lessons(LessonIds)
    /\ quizDocs = {NewQuiz(q, 0) : q \in QuizIds}
    /\ course \in {Course(ls, qs, TRUE, TRUE) :
                      ls \in SUBSET LessonIds, qs \in SUBSET QuizIds}
    /\ \E lp \in LessonArrays,
          qa \in SeqsUpTo(UNION {Attempts(q) : q \in QuizIds}, MaxAttemptsStored),
          stale \in {0, 50, FullProgress}, done \in {Unset, 1} :
          /\ stale = FullProgress => done # Unset
          /\ progress = <<[lessonsProgress |-> lp, quizAttempts |-> qa,
                        overallProgress |-> stale, completedAt |-> done,
                        certificateIssued |-> FALSE, certificateIssuedAt |-> Unset]>>
    /\ now = MaxClock
    /\ resp = NoReply
    /\ reqs = [r \in Reqs |-> IdleReq]
    /\ GradingIdle

\* await progress.updateOverallProgress()
UpdateOverallProgress ==
    /\ resp = NoReply
    /\ progress' = <<updateOverallProgress(progress[1], TotalLessons, TotalQuizzes, now)>>
    /\ resp' = Reply("updateOverallProgress", 0, "returned", progress'[1].overallProgress)
    /\ UNCHANGED <<lessonDocs, quizDocs, course, now, reqs, gQuiz, gAnswers, gScore>>

NextRecompute == UpdateOverallProgress

SpecRecompute == InitRecompute /\ [][NextRecompute]_vars

(***************************************************************************)
(* The admin deletes a lesson, the quiz or the course while a learner uses *)
(* the course.  The slot Admin carries the deletions one after the other.  *)
(* The slot Serial carries at most one request of the enrolled learner (a  *)
(* lesson route, a submission, a quiz fetch, the quiz listing or the       *)
(* certificate), whose steps come between those of a deletion, and further *)
(* requests for the lesson once a save has left a stray element in the     *)
(* stored array.                                                           *)
(* The record of the learner holds any lesson entries and at most one      *)
(* attempt, and the overallProgress recomputed from them.                  *)
(***************************************************************************)
\* the slot has carried no request yet
Unused(r) == reqs[r].pc = "idle"

\* the stored record holds an array element that is null or has no lesson
Stray ==
    \E k \in 1..Len(progress) : \E i \in 1..Len(progress[k].lessonsProgress) :
        NoLessonOf(progress[k].lessonsProgress[i])

InitDelete ==
    /\ lessonDocs = Lessons(LessonIds)
    /\ quizDocs = {NewQuiz(q, 0) : q \in QuizIds}
    /\ course = Course(LessonIds, QuizIds, TRUE, TRUE)
    /\ \E lp \in LessonArrays, qa \in SeqsUpTo(UNION {Attempts(q) : q \in QuizIds}, 1) :
          progress = <<updateOverallProgress(
                          [NewProgress EXCEPT !.lessonsProgress = lp, !.quizAttempts = qa],
                          Cardinality(LessonIds), Cardinality(QuizIds), 1)>>
    /\ now = 1
    /\ resp = NoReply
    /\ reqs = [r \in Reqs |-> IdleReq]
    /\ GradingIdle

NextDelete ==
    \/ \E l \in LessonIds : DeleteLessonFind(Admin, l)
    \/ \E q \in QuizIds : DeleteQuizFind(Admin, q)
    \/ PullFromCourse(Admin)
    \/ PullFromProgress(Admin)
    \/ DeleteCourseFind(Admin)
    \/ DeleteMany(Admin)
    \/ DeleteOne(Admin)
    \/ \E route \in LessonRoutes :
          (Unused(Serial) \/ Stray) /\ FindLesson(Serial, route, "l1", 0, WatchedAbove)
    \/ \E q \in QuizIds :
          Unused(Serial) /\ FindQuiz(Serial, "submit", q, << <<"a">>, <<"b">> >>)
    \/ \E q \in QuizIds : Unused(Serial) /\ FindQuiz(Serial, "getQuiz", q, << >>)
    \/ Unused(Serial) /\ GetQuizzesCourse(Serial)
    \/ Unused(Serial) /\ FindCertified(Serial)
    \/ FindCourse(Serial)
    \/ FindProgress(Serial)
    \/ Create(Serial)
    \/ CallLessonMutator(Serial)
    \/ CheckAndAddAttempt(Serial)
    \/ SaveSteps(Serial)
    \/ GetQuiz(Serial)
    \/ GetQuizzesFind(Serial)
    \/ GetQuizzes(Serial)
    \/ IssueOrRefuse(Serial)

SpecDelete == InitDelete /\ [][NextDelete]_vars

(***************************************************************************)
(* The admin routes that change the lessons and quizzes of a course       *)
(* nobody is enrolled in: the creation of lessons and quizzes, the update  *)
(* of a quiz, the update and the reordering of lessons, the deletion of a  *)
(* lesson and of the course, and the update of the course, which publishes *)
(* it or takes it back.  The slot Admin carries requests one after         *)
(* the other; the slot Serial carries at most one creation or one          *)
(* enrollment, whose steps come between theirs.                            *)
(***************************************************************************)
\* bodies of PUT /api/lessons/:id: the order of the first lesson, a free order, an
\* order below 1, a videoUrl that lessonSchema rejects
LessonPatches ==
    {LessonBody(Absent, Absent, Given(order)) : order \in {0, 1, 3}}
    \cup {LessonBody(Absent, Given("uri"), Absent)}

\* bodies of the reordering: no array, the two lessons swapped, the first lesson
\* moved to a free order and the second to the order it leaves
Reorderings ==
    {Absent, Given({LessonDoc("l1", 2), LessonDoc("l2", 1)}),
     Given({LessonDoc("l1", 3), LessonDoc("l2", 1)})}

InitContent ==
    /\ lessonDocs = Lessons({"l1"})
    /\ quizDocs = {}
    /\ course = Course(LessonIdsOf(lessonDocs), {}, FALSE, FALSE)
    /\ progress = << >>
    /\ now = 1
    /\ resp = NoReply
    /\ reqs = [r \in Reqs |-> IdleReq]
    /\ GradingIdle

NextContent ==
    \/ \E r \in Reqs, body \in LessonBodies :
          (r = Serial => Unused(r)) /\ RoomForLesson /\ PostLessonFind(r, body)
    \/ \E r \in Reqs, l \in LessonIds : LessonCreate(r, l)
    \/ \E r \in Reqs, body \in QuizBodies :
          (r = Serial => Unused(r)) /\ RoomForQuiz /\ PostQuizFind(r, body)
    \/ \E r \in Reqs, q \in QuizIds : QuizCreate(r, q)
    \/ \E r \in Reqs : Attach(r)
    \/ \E l \in LessonIds, body \in LessonPatches : PutLesson(Admin, l, body)
    \/ \E lessons \in Reorderings : ReorderFind(Admin, lessons)
    \/ ReorderUpdate(Admin)
    \/ \E l \in LessonIds : DeleteLessonFind(Admin, l)
    \/ PullFromCourse(Admin)
    \/ PullFromProgress(Admin)
    \/ DeleteCourseFind(Admin)
    \/ DeleteMany(Admin)
    \/ DeleteOne(Admin)
    \/ \E q \in QuizIds, body \in QuizPatches : PutQuiz(Admin, q, body)
    \/ \E body \in CoursePatches : PutCourse(Admin, body)
    \/ Unused(Serial) /\ EnrollCheck(Serial)
    \/ EnrollUser(Serial)
    \/ Create(Serial)

SpecContent == InitContent /\ [][NextContent]_vars

(***************************************************************************)
(* Two requests of one learner in flight at once, one per slot: two tabs   *)
(* of a browser, or a client that sends again before it is answered.  The  *)
(* save sends the changes only: pushed array elements are appended and     *)
(* increment the version key, a change of an existing array element is     *)
(* conditioned on the version key the request loaded.                      *)
(***************************************************************************)
\* the lesson entries of the record when the two requests arrive
StartArrays == {<< >>, <<LessonEntry("l1", FALSE)>>, <<LessonEntry("l1", TRUE)>>}

InitConc ==
    /\ lessonDocs = Lessons(LessonIds)
    /\ \E m \in MaxAttemptsInputs : quizDocs = {NewQuiz(q, m) : q \in QuizIds}
    /\ course = Course(LessonIds, QuizIds, TRUE, TRUE)
    /\ \E lp \in StartArrays :
          progress = <<updateOverallProgress([NewProgress EXCEPT !.lessonsProgress = lp],
                                             Cardinality(LessonIds), Cardinality(QuizIds), 1)>>
    /\ now = 1
    /\ resp = NoReply
    /\ reqs = [r \in Reqs |-> IdleReq]
    /\ GradingIdle

NextConc ==
    \/ \E r \in Reqs, l \in LessonIds :
          Unused(r) /\ FindLesson(r, "complete", l, 0, DefaultWatched)
    \/ \E r \in Reqs, l \in LessonIds :
          Unused(r) /\ FindLesson(r, "progress", l, 0, WatchedAbove)
    \/ \E r \in Reqs, q \in QuizIds, a \in SubmitAnswers :
          Unused(r) /\ FindQuiz(r, "submit", q, a)
    \/ \E r \in Reqs : FindCourse(r)
    \/ \E r \in Reqs : FindProgress(r)
    \/ \E r \in Reqs : CallLessonMutator(r)
    \/ \E r \in Reqs : CheckAndAddAttempt(r)
    \/ \E r \in Reqs : SaveSteps(r)
    \/ Tick

SpecConc == InitConc /\ [][NextConc]_vars

(***************************************************************************)
(* First interactions in flight at once.  There is no progress record; the *)
(* learner is not enrolled, or is enrolled by an enrollment that stopped   *)
(* after course.enrollUser (its User.findByIdAndUpdate failed).  The       *)
(* course is published or not, and an update of the course may publish it  *)
(* or take it back while an enrollment is in flight.                       *)
(***************************************************************************)
InitCreate ==
    /\ lessonDocs = Lessons(LessonIds)
    /\ quizDocs = {NewQuiz(q, 0) : q \in QuizIds}
    /\ course \in {Course(LessonIds, QuizIds, e, p) : e \in BOOLEAN, p \in BOOLEAN}
    /\ progress = << >>
    /\ now = 1
    /\ resp = NoReply
    /\ reqs = [r \in Reqs |-> IdleReq]
    /\ GradingIdle

NextCreate ==
    \/ \E r \in Reqs, body \in CoursePatches : Unused(r) /\ PutCourse(r, body)
    \/ \E r \in Reqs : Unused(r) /\ EnrollCheck(r)
    \/ \E r \in Reqs : EnrollUser(r)
    \/ \E r \in Reqs : Unused(r) /\ FindLesson(r, "complete", "l1", 0, DefaultWatched)
    \/ \E r \in Reqs : Unused(r) /\ FindLesson(r, "progress", "l1", 0, WatchedAbove)
    \/ \E r \in Reqs, q \in QuizIds :
          Unused(r) /\ FindQuiz(r, "submit", q, << <<"a">>, <<"b">> >>)
    \/ \E r \in Reqs : FindCourse(r)
    \/ \E r \in Reqs : FindProgress(r)
    \/ \E r \in Reqs : Create(r)
    \/ \E r \in Reqs : CallLessonMutator(r)
    \/ \E r \in Reqs : CheckAndAddAttempt(r)
    \/ \E r \in Reqs : SaveSteps(r)

SpecCreate == InitCreate /\ [][NextCreate]_vars

(***************************************************************************)
(* Certificate requests in flight at once, on a course of two lessons: the *)
(* record holds any lesson entries and the overallProgress recomputed from *)
(* them.                                                                   *)
(***************************************************************************)
InitCert ==
    /\ lessonDocs = Lessons(LessonIds)
    /\ quizDocs = {}
    /\ course = Course(LessonIds, {}, TRUE, TRUE)
    /\ \E lp \in LessonArrays :
          progress = <<updateOverallProgress([NewProgress EXCEPT !.lessonsProgress = lp],
                                             Cardinality(LessonIds), 0, 1)>>
    /\ now = 1
    /\ resp = NoReply
    /\ reqs = [r \in Reqs |-> IdleReq]
    /\ GradingIdle

NextCert ==
    \/ \E r \in Reqs : Unused(r) /\ FindCertified(r)
    \/ \E r \in Reqs : IssueOrRefuse(r)
    \/ \E r \in Reqs : SaveChanges(r)
    \/ \E r \in Reqs : SaveWrite(r)
    \/ \E r \in Reqs : Respond(r)
    \/ Tick

SpecCert == InitCert /\ [][NextCert]_vars

(***************************************************************************)
(* The best scores a learner is shown: the method getBestQuizScore, the    *)
(* virtual bestQuizScores and the three quiz routes that report bestScore. *)
(* A record of an enrolled learner is drawn with the attempts earlier      *)
(* submissions stored.  addQuizAttempt dates an attempt when it is called  *)
(* and the save pushes it later, so the attempts of submissions in flight  *)
(* at once are stored in any order of their dates.                         *)
(***************************************************************************)
BestQuizIds == {"q1", "q2"}

\* a quiz whose second question is worth no point: two full scores differ in
\* correctAnswers
BestQuiz(quizId) ==
    [id |-> quizId, questions |-> <<Question({"a"}, 1), Question({"b"}, 0)>>,
     passingScore |-> DefaultPassingScore, maxAttempts |-> 0, isActive |-> TRUE]

\* both right, the first right only, the second right only
BestAnswers == { << <<"a">>, <<"b">> >>, << <<"a">>, <<"a">> >>, << <<"b">>, <<"b">> >> }

\* the attempts POST /:id/submit stores for these answers at any time
BestAttempts ==
    {[quiz |-> q, score |-> calculateScore(BestQuiz(q), a), completedAt |-> d] :
        q \in BestQuizIds, a \in BestAnswers, d \in 1..MaxClock}

InitBest ==
    /\ lessonDocs = {}
    /\ quizDocs = {BestQuiz(q) : q \in BestQuizIds}
    /\ course = Course({}, BestQuizIds, TRUE, TRUE)
    /\ now = MaxClock
    /\ \/ progress = << >>
       \/ \E qa \in SeqsUpTo(BestAttempts, MaxBestAttempts) :
             /\ progress = <<updateOverallProgress([NewProgress EXCEPT !.quizAttempts = qa],
                                                   0, Cardinality(BestQuizIds), now)>>
    /\ resp = NoReply
    /\ reqs = [r \in Reqs |-> IdleReq]
    /\ GradingIdle

NextBest ==
    \/ \E q \in BestQuizIds : GetBestQuizScore(q)
    \/ BestQuizScores
    \/ GetQuizzesCourse(Serial)
    \/ GetQuizzesFind(Serial)
    \/ GetQuizzes(Serial)
    \/ \E q \in BestQuizIds : FindQuiz(Serial, "getQuiz", q, << >>)
    \/ \E q \in BestQuizIds : FindQuiz(Serial, "getResults", q, << >>)
    \/ FindCourse(Serial)
    \/ GetQuiz(Serial)
    \/ GetResults(Serial)

SpecBest == InitBest /\ [][NextBest]_vars

(***************************************************************************)
(* Properties of the grading (SpecGrade).                                  *)
(***************************************************************************)
\* the ids of the options of a question marked isCorrect, as a set
CorrectSet(question) == {o.id : o \in {x \in Range(question.options) : x.isCorrect}}

\* the questions whose selection, duplicates removed, is the set of correct ids
ExactMatches ==
    {i \in 1..Len(gQuiz.questions) :
        i <= Len(gAnswers) /\ Range(gAnswers[i]) = CorrectSet(gQuiz.questions[i])}

RECURSIVE PointsOf(_, _, _)
\* the points of the questions of S among the first n
PointsOf(questions, S, n) ==
    IF n = 0 THEN 0
    ELSE PointsOf(questions, S, n - 1) + (IF n \in S THEN questions[n].points ELSE 0)

\* C1: calculateScore counts a question as correct, adding 1 to correctAnswers and
\* its points to earnedPoints, exactly when the set of selected option ids equals
\* the set of ids of the options marked isCorrect.
C1_ExactSetMatch ==
    gScore.graded =>
        /\ gScore.result.correctAnswers = Cardinality(ExactMatches)
        /\ gScore.result.earnedPoints
              = PointsOf(gQuiz.questions, ExactMatches, Len(gQuiz.questions))

\* round-half-up of part / whole * 100 in exact arithmetic
RoundHalfUp(part, whole) == (200 * part + whole) \div (2 * whole)

\* C10: percentage is round-half-up(earnedPoints / totalPoints * 100) when
\* totalPoints > 0 and 0 when totalPoints = 0, and always lies in 0..100.
C10_PercentageRoundHalfUp ==
    gScore.graded =>
        LET r == gScore.result
        IN /\ r.totalPoints > 0 => r.percentage = RoundHalfUp(r.earnedPoints, r.totalPoints)
           /\ r.totalPoints = 0 => r.percentage = 0
           /\ r.percentage \in 0..100

(***************************************************************************)
(* Properties of the recomputation (SpecRecompute).                        *)
(***************************************************************************)
\* lesson entries with completed = true
CompletedEntries(doc) ==
    {i \in 1..Len(doc.lessonsProgress) : doc.lessonsProgress[i].completed}

\* distinct quizzes with a passed attempt
PassedQuizzes(doc) ==
    {q \in {doc.quizAttempts[i].quiz : i \in 1..Len(doc.quizAttempts)} :
        \E i \in 1..Len(doc.quizAttempts) :
            doc.quizAttempts[i].quiz = q /\ doc.quizAttempts[i].score.passed}

\* completedItems and totalItems of a record, each kind counted only if the course
\* has content of that kind
ItemsOf(doc, lessons, quizzes) ==
    [completed |-> (IF lessons > 0 THEN Cardinality(CompletedEntries(doc)) ELSE 0)
                   + (IF quizzes > 0 THEN Cardinality(PassedQuizzes(doc)) ELSE 0),
     total |-> lessons + quizzes]

\* C3: updateOverallProgress sets overallProgress to 0 and leaves completedAt alone
\* when the course has no lesson and no quiz, and otherwise sets overallProgress to
\* round(completedItems / totalItems * 100), lessons counted only if the course has
\* a lesson and quizzes only if it has a quiz.
C3_RecomputeFormula ==
    [][UpdateOverallProgress =>
        LET items == ItemsOf(progress[1], TotalLessons, TotalQuizzes)
        IN IF items.total = 0
           THEN /\ progress'[1].overallProgress = 0
                /\ progress'[1].completedAt = progress[1].completedAt
           ELSE progress'[1].overallProgress = RoundPercent(items.completed, items.total)
    ]_vars

\* two of three items done: the recomputation has rounded 66.67 to 67
C3_Witness ==
    /\ resp.route = "updateOverallProgress"
    /\ TotalLessons = 2 /\ TotalQuizzes = 1
    /\ progress[1].overallProgress = 67

(***************************************************************************)
(* Properties of the progress record under the routes (SpecFixed, Spec).   *)
(***************************************************************************)
\* the recomputation over the stored lesson entries and quiz attempts
Recomputed(doc) ==
    LET items == ItemsOf(doc, TotalLessons, TotalQuizzes)
    IN IF items.total = 0 THEN 0 ELSE RoundPercent(items.completed, items.total)

\* C2: when a mutating route answers with success, its save done, the stored
\* overallProgress and the overallProgress of the response both equal the
\* recomputation over the stored lesson entries and quiz attempts.
C2_RecomputedBeforeSave ==
    [][\A r \in Reqs :
          (Respond(r) /\ reqs[r].route \in MutatorRoutes) =>
              /\ progress[1].overallProgress = Recomputed(progress[1])
              /\ resp'.overallProgress = Recomputed(progress[1])
    ]_vars

\* every lesson of the course has a completed entry, every quiz a passed attempt
AllDone(doc) ==
    /\ TotalLessons + TotalQuizzes > 0
    /\ \A l \in course.lessons :
          \E i \in CompletedEntries(doc) : doc.lessonsProgress[i].lesson = l
    /\ course.quizzes \subseteq PassedQuizzes(doc)

\* C4: on a course with content, once every lesson is completed and every quiz
\* passed, the stored record has overallProgress 100 and completedAt set, and a
\* certificate request is answered with success or, after that, with "already
\* issued".
C4_CompletedCourseCertified ==
    [][/\ (Len(progress') > 0 /\ AllDone(progress'[1])) =>
             /\ progress'[1].overallProgress = FullProgress
             /\ progress'[1].completedAt # Unset
       /\ \A r \in Reqs :
             (IssueOrRefuse(r) /\ AllDone(progress[1])) =>
                 \/ reqs'[r].pc = "mutated"
                 \/ resp'.message = "already issued"
    ]_vars

\* C5: a certificate request on a record below or above 100 is refused as not
\* eligible, on a record already certified as already issued, both leaving the
\* record unchanged; otherwise it sets certificateIssued and certificateIssuedAt = now
\* and nothing else, and its save stores just that.
C5_CertificateIssuance ==
    [][\A r \in Reqs :
          /\ IssueOrRefuse(r) =>
                IF progress[1].overallProgress # 100
                THEN /\ resp'.status = 400 /\ resp'.message = "not eligible"
                     /\ reqs'[r].pc = "done"
                     /\ progress' = progress
                ELSE IF progress[1].certificateIssued
                THEN /\ resp'.status = 400 /\ resp'.message = "already issued"
                     /\ reqs'[r].pc = "done"
                     /\ progress' = progress
                ELSE /\ reqs'[r].pc = "mutated"
                     /\ reqs'[r].mem = [progress[1] EXCEPT !.certificateIssued = TRUE,
                                                           !.certificateIssuedAt = now]
          /\ (SaveWrite(r) /\ reqs[r].route = "certificate") =>
                progress' = <<reqs[r].mem>>
    ]_vars

\* a second certificate request has been refused: the first one had succeeded
C5_Witness ==
    /\ resp.route = "certificate"
    /\ resp.message = "already issued"
    /\ progress[1].certificateIssued
    /\ progress[1].certificateIssuedAt # Unset

\* C8: a step that stores an overallProgress of 100 on a record whose completedAt
\* is unset sets completedAt to the time of the recomputation, and once set
\* completedAt is never changed again, whatever the later requests compute.
C8_CompletedAtLatch ==
    [][(Len(progress) > 0 /\ Len(progress') > 0) =>
        /\ progress[1].completedAt # Unset =>
              progress'[1].completedAt = progress[1].completedAt
        /\ (progress[1].completedAt = Unset
            /\ progress'[1].overallProgress = FullProgress
            /\ progress'[1] # progress[1]) =>
              progress'[1].completedAt \in 1..now
    ]_vars

\* completedAt is kept although a later request has stored a recomputation below 100
C8_Witness ==
    /\ Len(progress) > 0
    /\ progress[1].completedAt # Unset
    /\ progress[1].overallProgress < FullProgress
    /\ progress[1].overallProgress = Recomputed(progress[1])
    /\ resp.route \in MutatorRoutes /\ resp.status = 200

(***************************************************************************)
(* Properties of the lesson entries (SpecLesson).                          *)
(***************************************************************************)
\* C6: every stored lesson entry whose watchedPercentage is 80 or more has
\* completed = true, also an entry raised from below 80 by a later watch-progress
\* update.
C6_AutoCompleteThreshold ==
    \A k \in 1..Len(progress) : \A i \in 1..Len(progress[k].lessonsProgress) :
        progress[k].lessonsProgress[i].watchedPercentage >= AutoCompleteThreshold
            => progress[k].lessonsProgress[i].completed

\* C9: no request lowers the watchedPercentage or the timeSpent of a stored lesson
\* entry, whatever timeSpent and watchedPercentage its body carries.
C9_NeverDecrease ==
    [][\A i \in 1..Len(progress[1].lessonsProgress) :
          /\ progress'[1].lessonsProgress[i].watchedPercentage
                >= progress[1].lessonsProgress[i].watchedPercentage
          /\ progress'[1].lessonsProgress[i].timeSpent
                >= progress[1].lessonsProgress[i].timeSpent
    ]_vars

(***************************************************************************)
(* Properties of concurrent requests (SpecConc).                           *)
(***************************************************************************)
\* the slot r has finished a request of one of the routes that was not refused for
\* what it asked (400, 403, 404)
Finished(r, routes) ==
    /\ reqs[r].pc = "done"
    /\ reqs[r].route \in routes
    /\ reqs[r].status \in {200, 500}

\* the stored record holds the update of the finished lesson request of slot r
HoldsLessonUpdate(doc, r) ==
    \E i \in 1..Len(doc.lessonsProgress) :
        /\ doc.lessonsProgress[i].lesson = reqs[r].target
        /\ reqs[r].route = "complete" => doc.lessonsProgress[i].completed

\* C7: when a lesson request and a quiz submission that ran concurrently have both
\* finished, both have succeeded, the stored record holds the lesson update and
\* the new attempt, and its overallProgress is the recomputation over both.
C7_NoLostUpdate ==
    \A r, q \in Reqs :
        (Finished(r, LessonRoutes) /\ Finished(q, {"submit"})) =>
            /\ reqs[r].status = 200 /\ reqs[q].status = 200
            /\ HoldsLessonUpdate(progress[1], r)
            /\ Len(progress[1].quizAttempts) = 1
            /\ progress[1].overallProgress = Recomputed(progress[1])

(***************************************************************************)
(* Further properties of the grading (SpecGrade).                          *)
(***************************************************************************)
\* C11: every score result has passed exactly when its percentage is at least the
\* quiz's passingScore; a percentage equal to the passingScore passes.
C11_PassedAtThreshold ==
    gScore.graded =>
        (gScore.result.passed <=> gScore.result.percentage >= gQuiz.passingScore)

\* a graded quiz whose percentage is exactly its passingScore, and passed
C11_Witness ==
    /\ gScore.graded
    /\ gScore.result.percentage = gQuiz.passingScore
    /\ gScore.result.passed

(***************************************************************************)
(* Properties of the quiz routes (SpecQuiz).                               *)
(***************************************************************************)
\* the attempts the learner has stored for a quiz
StoredAttempts(quizId) ==
    IF Len(progress) = 0 THEN 0
    ELSE Cardinality({i \in 1..Len(progress[1].quizAttempts) :
                         progress[1].quizAttempts[i].quiz = quizId})

\* attemptsAllowed: no limit, or fewer stored attempts than the limit
AttemptsAllowed(quiz) ==
    quiz.maxAttempts = 0 \/ StoredAttempts(quiz.id) < quiz.maxAttempts

\* C12: a submission is refused with "maximum attempts reached" exactly when the
\* quiz has a limit and the learner's stored attempts for it are not below the limit,
\* and GET /:id answers canAttempt = true under exactly the opposite condition.
C12_AttemptLimitGate ==
    [][\A r \in Reqs :
          /\ CheckAndAddAttempt(r) =>
                ((reqs'[r].pc = "done" /\ resp'.message = "maximum attempts reached")
                    <=> ~AttemptsAllowed(reqs[r].quiz))
          /\ GetQuiz(r) => (resp'.canAttempt <=> AttemptsAllowed(reqs[r].quiz))
    ]_vars

\* a submission has been refused at the limit, the stored attempts equal to it
C12_Witness ==
    /\ resp.route = "submit"
    /\ resp.message = "maximum attempts reached"
    /\ \E q \in QuizIds :
          /\ QuizById(quizDocs, q).maxAttempts = 1
          /\ StoredAttempts(q) = 1

\* C13: a quiz with a passing attempt is counted once in passedQuizzesCount however
\* many passing attempts it has, it stays counted after later failing attempts, and
\* the stored overallProgress, which a step leaves alone or sets to the recomputation
\* with that count, never gets lower.
C13_BestAttemptEver ==
    [][(Len(progress) > 0 /\ Len(progress') > 0) =>
          /\ passedQuizzesCount(progress'[1]) = Cardinality(PassedQuizzes(progress'[1]))
          /\ PassedQuizzes(progress[1]) \subseteq PassedQuizzes(progress'[1])
          /\ progress'[1].overallProgress >= progress[1].overallProgress
          /\ \/ progress'[1].overallProgress = progress[1].overallProgress
             \/ progress'[1].overallProgress = Recomputed(progress'[1])
    ]_vars

\* a passing attempt followed by a failing one on the same quiz, the quiz still
\* counted in the stored overallProgress
C13_Witness ==
    /\ Len(progress) > 0
    /\ Len(progress[1].quizAttempts) = 2
    /\ progress[1].quizAttempts[1].score.passed
    /\ ~progress[1].quizAttempts[2].score.passed
    /\ progress[1].quizAttempts[1].quiz = progress[1].quizAttempts[2].quiz
    /\ resp.route = "submit" /\ resp.status = 200
    /\ progress[1].overallProgress > 0
    /\ progress[1].overallProgress = Recomputed(progress[1])

\* C14 as stated: a submission whose number of answers differs from the quiz's number
\* of questions is refused with the invalid-input error, 400 "invalid answers format",
\* and no attempt is recorded for it.
C14_AnswerCountMismatch ==
    [][\A r \in Reqs :
          (/\ CheckAndAddAttempt(r)
           /\ Len(reqs[r].body.answers) # Len(reqs[r].quiz.questions))
          => /\ reqs'[r].pc = "done"
             /\ resp'.status = 400
             /\ resp'.message = "invalid answers format"
             /\ \A k \in 1..Len(progress) :
                   progress'[k].quizAttempts = progress[k].quizAttempts
    ]_vars

\* C14 amended: a submission whose number of answers differs from the quiz's number
\* of questions is never graded and no attempt is recorded for it; it is refused with
\* 400, with "invalid answers format" when the learner's stored attempts allow another
\* attempt and with "maximum attempts reached" when they do not, the limit being
\* checked first.
C14_MismatchRefused ==
    [][\A r \in Reqs :
          (/\ CheckAndAddAttempt(r)
           /\ Len(reqs[r].body.answers) # Len(reqs[r].quiz.questions))
          => /\ reqs'[r].pc = "done"
             /\ resp'.status = 400
             /\ resp'.message = IF AttemptsAllowed(reqs[r].quiz)
                                THEN "invalid answers format"
                                ELSE "maximum attempts reached"
             /\ \A k \in 1..Len(progress) :
                   progress'[k].quizAttempts = progress[k].quizAttempts
    ]_vars

\* a submission has been refused for its number of answers, no attempt is stored
C14_Witness ==
    /\ resp.route = "submit"
    /\ resp.message = "invalid answers format"
    /\ Len(progress) > 0
    /\ progress[1].quizAttempts = << >>

\* the submission of slot r, past the enrollment check, is one the route refuses with
\* 400: its number of answers is wrong, or the record it loaded is at the limit
Refusable(r) ==
    /\ reqs[r].route = "submit"
    /\ \/ InvalidAnswers(reqs[r].quiz, reqs[r].body.answers)
       \/ reqs[r].pc = "loaded" /\ LimitReached(reqs[r].quiz, reqs[r].doc)

\* C15: a submission refused with 400 after the enrollment check leaves the stored
\* progress as it was: no attempt appended, no field changed, no record created.
C15_RejectedLeavesState ==
    [][\A r \in Reqs :
          (Refusable(r) /\ (FindProgress(r) \/ Create(r) \/ CheckAndAddAttempt(r)))
              => progress' = progress
    ]_vars

(***************************************************************************)
(* Properties of the deletions (SpecDelete).                               *)
(***************************************************************************)
\* the recomputation over a record for a course with the given content
RecomputedFor(doc, content) ==
    LET items == ItemsOf(doc, Cardinality(content.lessons), Cardinality(content.quizzes))
    IN IF items.total = 0 THEN 0 ELSE RoundPercent(items.completed, items.total)

\* the stored records hold the recomputation over their entries and attempts
UpToDate(records, content) ==
    \A k \in 1..Len(records) : records[k].overallProgress = RecomputedFor(records[k], content)

\* the content of the course before the deletion of slot r pulled its target from it
BeforePull(r) ==
    IF ~course.exists THEN course
    ELSE IF reqs[r].route = "deleteLesson"
    THEN [course EXCEPT !.lessons = @ \cup {reqs[r].target}]
    ELSE [course EXCEPT !.quizzes = @ \cup {reqs[r].target}]

\* C16: deleting a lesson removes its entry from every record, deleting a quiz removes
\* its attempts from every record, and a record whose overallProgress was the
\* recomputation before the deletion holds the recomputation over what remains after.
C16_DeletionCascades ==
    [][\A r \in Reqs :
          PullFromProgress(r) =>
             /\ \A k \in 1..Len(progress') :
                    /\ reqs[r].route = "deleteLesson" =>
                          \A i \in 1..Len(progress'[k].lessonsProgress) :
                              progress'[k].lessonsProgress[i].lesson # reqs[r].target
                    /\ reqs[r].route = "deleteQuiz" =>
                          \A i \in 1..Len(progress'[k].quizAttempts) :
                              progress'[k].quizAttempts[i].quiz # reqs[r].target
             /\ UpToDate(progress, BeforePull(r)) => UpToDate(progress', course)
    ]_vars

(***************************************************************************)
(* Properties of the grading of malformed and extreme quizzes (SpecGrade). *)
(***************************************************************************)
\* the questions with at least one option marked isCorrect
WellFormed == {i \in 1..Len(gQuiz.questions) : CorrectSet(gQuiz.questions[i]) # {}}

\* C17: a question with no option marked isCorrect adds its points to totalPoints and
\* nothing to correctAnswers or earnedPoints, whatever is selected for it: only the
\* other questions can be counted.
C17_ZeroCorrectEarnsNothing ==
    gScore.graded =>
        /\ gScore.result.totalPoints
              = PointsOf(gQuiz.questions, 1..Len(gQuiz.questions), Len(gQuiz.questions))
        /\ gScore.result.correctAnswers <= Cardinality(WellFormed)
        /\ gScore.result.earnedPoints
              <= PointsOf(gQuiz.questions, WellFormed, Len(gQuiz.questions))

\* every question is answered with exactly its correct options, each selected once
AllExact ==
    /\ Len(gAnswers) = Len(gQuiz.questions)
    /\ \A i \in 1..Len(gAnswers) :
          /\ Range(gAnswers[i]) = CorrectSet(gQuiz.questions[i])
          /\ Len(gAnswers[i]) = Cardinality(CorrectSet(gQuiz.questions[i]))

\* every question is answered with an empty selection
AllEmpty ==
    /\ Len(gAnswers) = Len(gQuiz.questions)
    /\ \A i \in 1..Len(gAnswers) : gAnswers[i] = << >>

\* C18: on a quiz that has points to earn, answering every question with exactly its
\* correct options gives percentage 100, and answering every question with an empty
\* selection gives percentage 0.
C18_AllRightAllEmpty ==
    (gScore.graded /\ gScore.result.totalPoints > 0) =>
        /\ AllExact => gScore.result.percentage = 100
        /\ AllEmpty => gScore.result.percentage = 0

(***************************************************************************)
(* Further properties of the lesson entries (SpecLesson).                  *)
(***************************************************************************)
\* C19: a request leaves the completedAt of a stored lesson entry unchanged once it
\* is set: completedAt records the first completion.
C19_FirstCompletionKept ==
    [][\A i \in 1..Len(progress[1].lessonsProgress) :
          progress[1].lessonsProgress[i].completedAt # Unset =>
              progress'[1].lessonsProgress[i].completedAt
                 = progress[1].lessonsProgress[i].completedAt
    ]_vars

\* C20: a stored lesson entry with completed = true keeps it after every request of
\* the two lesson routes, whatever watchedPercentage the request carries.
C20_CompletedLatch ==
    [][\A i \in 1..Len(progress[1].lessonsProgress) :
          progress[1].lessonsProgress[i].completed =>
              /\ i <= Len(progress'[1].lessonsProgress)
              /\ progress'[1].lessonsProgress[i].lesson = progress[1].lessonsProgress[i].lesson
              /\ progress'[1].lessonsProgress[i].completed
    ]_vars

\* the only entry is completed with a watchedPercentage below the threshold, and the
\* latest request, a watch-progress update, has succeeded: it found the entry completed
C20_Witness ==
    /\ resp.route = "progress" /\ resp.status = 200
    /\ Len(progress[1].lessonsProgress) = 1
    /\ progress[1].lessonsProgress[1].completed
    /\ progress[1].lessonsProgress[1].watchedPercentage < AutoCompleteThreshold


(***************************************************************************)
(* Properties of the best-score reports (SpecBest).                        *)
(***************************************************************************)
\* the positions of the attempts with the maximum percentage
TopAttempts(attempts) ==
    {i \in 1..Len(attempts) :
        \A j \in 1..Len(attempts) : attempts[j].score.percentage <= attempts[i].score.percentage}

\* the positions of the earliest attempts among those of the maximum percentage:
\* the one stored first, and those of the earliest date
Earliest(attempts) ==
    LET top == TopAttempts(attempts)
    IN {i \in top : \/ \A j \in top : i <= j
                    \/ \A j \in top : attempts[i].completedAt <= attempts[j].completedAt}

\* the score of an earliest attempt of the quiz with the maximum percentage, none
\* when the learner has no attempt of the quiz
EarliestBest(quizId) ==
    IF Len(progress) = 0 THEN {<< >>}
    ELSE LET attempts == AttemptsOf(progress[1], quizId)
         IN IF Len(attempts) = 0 THEN {<< >>}
            ELSE {<<attempts[i].score>> : i \in Earliest(attempts)}

\* the score of what getBestQuizScore returned
ScoreOf(best) == IF Len(best) = 0 THEN << >> ELSE <<best[1].score>>

\* the entry of the quiz in what bestQuizScores returned
EntryOf(bestScores, quizId) ==
    IF quizId \in DOMAIN bestScores THEN <<bestScores[quizId]>> ELSE << >>

\* C21: every best score reported for a quiz (getBestQuizScore, bestQuizScores, the
\* quiz listing, the quiz fetch and the quiz results) is the score of the earliest
\* attempt with the maximum percentage among the learner's attempts of the quiz,
\* earliest in the order stored or by date, and none when there is no such attempt.
C21_BestScoreEarliestTie ==
    [][\A q \in BestQuizIds :
          /\ GetBestQuizScore(q) => ScoreOf(resp'.bestAttempt) \in EarliestBest(q)
          /\ BestQuizScores => EntryOf(resp'.bestScores, q) \in EarliestBest(q)
          /\ \A r \in Reqs :
                /\ (GetQuizzes(r) /\ Len(progress) > 0 /\ q \in reqs[r].list)
                      => resp'.quizProgress[q] \in EarliestBest(q)
                /\ (GetQuiz(r) /\ reqs[r].target = q)
                      => resp'.bestScore \in EarliestBest(q)
                /\ (GetResults(r) /\ reqs[r].target = q /\ resp'.status = 200)
                      => resp'.bestScore \in EarliestBest(q)
    ]_vars

(***************************************************************************)
(* Properties of the first interactions (SpecCreate).                      *)
(***************************************************************************)
\* C22: under any interleaving of enrollment, lesson-completion, watch-progress and
\* quiz-submission requests, concurrent first interactions included, there is at most
\* one progress record for the (user, course) pair.
C22_OneRecordPerPair == Len(progress) <= 1

\* two mutating requests found no record: the Progress.create of one was rejected,
\* the other had created the record in between and has not changed it yet
C22_Witness ==
    /\ Len(progress) = 1
    /\ \E r, other \in Reqs :
          /\ {reqs[r].route, reqs[other].route} \subseteq MutatorRoutes
          /\ reqs[r].pc = "done" /\ reqs[r].status = 500
          /\ reqs[other].pc = "loaded" /\ reqs[other].doc = NewProgress
          /\ progress[1] = NewProgress

(***************************************************************************)
(* Properties of the lesson entries (SpecConc, SpecLesson).                *)
(***************************************************************************)
\* C23: under any sequence or interleaving of completeLesson and updateLessonProgress
\* requests, lessonsProgress holds at most one entry per lesson id, so
\* completedLessonsCount never exceeds the number of lessons of the course.
C23_OneEntryPerLesson ==
    \A k \in 1..Len(progress) :
        /\ \A i, j \in 1..Len(progress[k].lessonsProgress) :
              progress[k].lessonsProgress[i].lesson = progress[k].lessonsProgress[j].lesson
                 => i = j
        /\ completedLessonsCount(progress[k]) <= TotalLessons

(***************************************************************************)
(* Properties of a repeated recomputation (SpecRecompute).                 *)
(***************************************************************************)
\* the record after one more call of updateOverallProgress at the given time, record
\* and course content as they are
RecomputedAgain(date) == updateOverallProgress(progress[1], TotalLessons, TotalQuizzes, date)

\* C24: updateOverallProgress is idempotent: once it has run on a record, running it
\* again, at the same or at a later time and with no change of the record or of the
\* course content in between, leaves overallProgress and completedAt as they are.
C24_RecomputeIdempotent ==
    resp.route = "updateOverallProgress" =>
        \A date \in now..(now + 1) :
            /\ RecomputedAgain(date).overallProgress = progress[1].overallProgress
            /\ RecomputedAgain(date).completedAt = progress[1].completedAt

\* the first call found every item done and stamped completedAt: a second call at a
\* later time has a date to overwrite it with
C24_Witness ==
    /\ resp.route = "updateOverallProgress"
    /\ TotalLessons + TotalQuizzes > 0
    /\ progress[1].overallProgress = FullProgress
    /\ progress[1].completedAt = now

(***************************************************************************)
(* Properties of the attempt limit under requests in flight (SpecConc).    *)
(***************************************************************************)
\* C25: for a quiz with maxAttempts > 0 the number of attempts stored for the quiz in
\* the learner's record never exceeds maxAttempts, under any sequence or interleaving
\* of the learner's submissions.
C25_AttemptsWithinLimit ==
    \A quiz \in quizDocs : \A k \in 1..Len(progress) :
        quiz.maxAttempts > 0 => ExistingAttempts(progress[k], quiz.id) <= quiz.maxAttempts

(***************************************************************************)
(* Properties of the certificate under requests in flight (SpecCert).      *)
(***************************************************************************)
\* the certificate requests that were answered 200
Issuers(slots) == {r \in Reqs : slots[r].route = "certificate" /\ slots[r].status = 200}

\* C26: the certificate is set exactly once: across any sequence or interleaving of
\* certificate requests for one record at most one request succeeds,
\* certificateIssuedAt is written at most once, and certificateIssued is never reset.
C26_CertificateSetOnce ==
    [][/\ Cardinality(Issuers(reqs')) <= 1
       /\ progress[1].certificateIssued =>
             /\ progress'[1].certificateIssued
             /\ progress'[1].certificateIssuedAt = progress[1].certificateIssuedAt]_vars

(***************************************************************************)
(* Properties of the detailed results of a submission (SpecGrade).         *)
(***************************************************************************)
\* C27: in the detailed results of a submission the isCorrect flag of the question at
\* position i is true if and only if that question was graded correct, for every
\* position and every mix of right and wrong answers.
C27_DetailedResultsPerQuestion ==
    (resp.route = "submit" /\ resp.detailedResults.given) =>
        \A i \in 1..Len(gQuiz.questions) :
            resp.detailedResults.isCorrect[i] <=> QuestionCorrect(gQuiz.questions[i], gAnswers, i)

(***************************************************************************)
(* Properties of the completion dates (SpecLesson, Spec).                  *)
(***************************************************************************)
\* C28: every lesson entry with completed = true has completedAt set, whether it was
\* completed by completeLesson or by the auto-complete rule of updateLessonProgress.
C28_CompletedEntryDated ==
    \A k \in 1..Len(progress) : \A i \in 1..Len(progress[k].lessonsProgress) :
        progress[k].lessonsProgress[i].completed
            => progress[k].lessonsProgress[i].completedAt # Unset

\* C29: certificateIssued = true implies that certificateIssuedAt is set and that the
\* record's completedAt is set, at a time no later than the certificate was issued.
C29_CertifiedRecordDated ==
    \A k \in 1..Len(progress) :
        progress[k].certificateIssued =>
            /\ progress[k].certificateIssuedAt # Unset
            /\ progress[k].completedAt # Unset
            /\ progress[k].completedAt <= progress[k].certificateIssuedAt

\* a certificate issued after time has passed since the record became complete
C29_Witness ==
    /\ Len(progress) > 0
    /\ progress[1].certificateIssued
    /\ progress[1].completedAt # Unset
    /\ progress[1].completedAt < progress[1].certificateIssuedAt

(***************************************************************************)
(* Properties of the certificate on a course whose content changes (Spec). *)
(***************************************************************************)
\* the record has a completed entry for every lesson now in the course and a passed
\* attempt for every quiz now in the course
CurrentlyComplete(doc) ==
    /\ \A l \in course.lessons :
          \E i \in CompletedEntries(doc) : doc.lessonsProgress[i].lesson = l
    /\ course.quizzes \subseteq PassedQuizzes(doc)

\* C30: a certificate is issued only if, at the moment of issuance, the learner has a
\* completed entry for every lesson currently in the course and a passing attempt for
\* every quiz currently in the course, even when content was added to or removed
\* from the course after the learner's last progress update.
C30_CertificateOnlyIfComplete ==
    [][\A r \in Reqs :
          (SaveWrite(r) /\ reqs[r].route = "certificate" /\ progress'[1].certificateIssued)
              => CurrentlyComplete(progress'[1])
    ]_vars

====
